---- MODULE Spec2Model ----
(***************************************************************************)
(* Streaming generation orchestrator of NovelSeek-Pro                      *)
(* (src-tauri/src/commands/stream.rs): the single-flight lock, the shared  *)
(* cancel flag, the SSE read loop of stream_generate /                     *)
(* generate_chapter_stream and the continuation loop of                    *)
(* generate_outline_stream.                                                *)
(*                                                                         *)
(* Text.  A Rust String is a sequence of bytes.  A byte is written as a    *)
(* TLA+ string: an ASCII byte is the character itself ("d", "1", "\n"),    *)
(* the bytes of the multi-byte characters are written in hex ("E7", "AC",  *)
(* "AB", "A0"; U+FFFD is "EF" "BF" "BD").  The fixed pieces of JSON syntax *)
(* an upstream frame is made of are one symbol each (J_OPEN, J_DELTA, ...):*)
(* a cut inside such a piece leaves two fragments neither of which is a    *)
(* JSON document, exactly as a cut at its edge does.                       *)
(***************************************************************************)
EXTENDS Integers, Sequences, FiniteSets, TLC

\* ------------------------------------------------------------------ bytes

LF == "\n"
CR == "\r"

\* U+7B2C and U+7AE0 in UTF-8
DI == <<"E7", "AC", "AC">>
ZHANG == <<"E7", "AB", "A0">>
\* U+FFFD, what String::from_utf8_lossy writes for an invalid sequence
REPLACEMENT == <<"EF", "BF", "BD">>

LeadBytes == {"E7", "EF"}
ContBytes == {"AC", "AB", "A0", "BF", "BD"}
Digits == {"0", "1", "2", "3", "4", "5", "6", "7", "8", "9"}

\* {"choices":[
J_OPEN == "{choices:["
\* ]}
J_CLOSE == "]}"
\* {"delta":{"content":"
J_DELTA == "{delta:{content:'"
\* "}}
J_END == "'}}"
\* {"delta":{}}
J_NODELTA == "{delta:{}}"
J_COMMA == ","
JsonSyntax == {J_OPEN, J_CLOSE, J_DELTA, J_END, J_NODELTA, J_COMMA}

\* "data: "
DATA_PREFIX == <<"d", "a", "t", "a", ":", " ">>
\* "[DONE]"
DONE_SENTINEL == <<"[", "D", "O", "N", "E", "]">>

\* ------------------------------------------------------- sequence helpers

Drop(s, n) == IF n >= Len(s) THEN <<>> ELSE SubSeq(s, n + 1, Len(s))
Take(s, n) == IF n >= Len(s) THEN s ELSE SubSeq(s, 1, n)

RECURSIVE Flatten(_)
Flatten(ss) == IF ss = <<>> THEN <<>> ELSE Head(ss) \o Flatten(Tail(ss))

\* str::starts_with
starts_with(s, prefix) == Len(s) >= Len(prefix) /\ Take(s, Len(prefix)) = prefix

\* String::from_utf8_lossy over this alphabet: a complete three-byte
\* sequence is kept, every maximal invalid part becomes one U+FFFD (a lead
\* byte with its valid continuation but no third byte is one part, a stray
\* continuation byte is one part).
RECURSIVE LossyFrom(_, _)
LossyFrom(b, i) ==
    IF i > Len(b) THEN <<>>
    ELSE IF b[i] \in LeadBytes
         THEN IF i + 2 <= Len(b) /\ b[i + 1] \in ContBytes /\ b[i + 2] \in ContBytes
              THEN <<b[i], b[i + 1], b[i + 2]>> \o LossyFrom(b, i + 3)
              ELSE IF i + 1 <= Len(b) /\ b[i + 1] \in ContBytes
                   THEN REPLACEMENT \o LossyFrom(b, i + 2)
                   ELSE REPLACEMENT \o LossyFrom(b, i + 1)
         ELSE IF b[i] \in ContBytes
              THEN REPLACEMENT \o LossyFrom(b, i + 1)
              ELSE <<b[i]>> \o LossyFrom(b, i + 1)

from_utf8_lossy(b) == LossyFrom(b, 1)

\* Position of the first LF of s, 0 when there is none.
RECURSIVE FirstLF(_, _)
FirstLF(s, i) ==
    IF i > Len(s) THEN 0 ELSE IF s[i] = LF THEN i ELSE FirstLF(s, i + 1)

StripCR(l) == IF l # <<>> /\ l[Len(l)] = CR THEN Take(l, Len(l) - 1) ELSE l

\* str::lines: split at every LF and drop the CR of a CR LF ending; a last
\* line without LF is a line too (as it is), an empty rest after the last LF
\* is not.  LinesFrom(s, i) is the lines of s from position i on; e is the
\* position of the next LF, found once.
RECURSIVE LinesFrom(_, _)
LinesFrom(s, i) ==
    IF i > Len(s) THEN <<>>
    ELSE CHOOSE ls \in
            {IF e = 0 THEN <<SubSeq(s, i, Len(s))>>
             ELSE <<StripCR(SubSeq(s, i, e - 1))>> \o LinesFrom(s, e + 1) :
                e \in {FirstLF(s, i)}} : TRUE

lines(s) == LinesFrom(s, 1)

\* ---------------------------------------------------------- SSE decoding

\* An Option<T>: <<>> is None, <<x>> is Some(x).
Some(x) == <<x>>
NoneOpt == <<>>

ParseFail == [ok |-> FALSE, choices |-> <<>>]

\* Position of the first J_END of s, 0 when there is none.
RECURSIVE FirstEnd(_, _)
FirstEnd(s, i) ==
    IF i > Len(s) THEN 0 ELSE IF s[i] = J_END THEN i ELSE FirstEnd(s, i + 1)

\* A JSON string body: no syntax piece and no raw control character.
IsStringBody(s) == \A i \in 1..Len(s) : s[i] \notin JsonSyntax \cup {LF, CR}

\* The elements of the "choices" array (StreamChoice, StreamDelta): a
\* non-empty comma-separated list of {"delta":{}} and
\* {"delta":{"content":"..."}} objects.
RECURSIVE ParseChoices(_)
ParseChoices(s) ==
    LET rest(choice, after) ==
            IF after = <<>> THEN [ok |-> TRUE, choices |-> <<choice>>]
            ELSE IF Head(after) = J_COMMA
                 THEN LET more == ParseChoices(Tail(after))
                      IN IF more.ok
                         THEN [ok |-> TRUE, choices |-> <<choice>> \o more.choices]
                         ELSE ParseFail
                 ELSE ParseFail
    IN IF s = <<>> THEN ParseFail
       ELSE IF Head(s) = J_NODELTA
            THEN rest([content |-> NoneOpt], Tail(s))
            ELSE IF Head(s) = J_DELTA
                 THEN LET e == FirstEnd(s, 2)
                      IN IF e = 0 \/ ~IsStringBody(SubSeq(s, 2, e - 1))
                         THEN ParseFail
                         ELSE rest([content |-> Some(SubSeq(s, 2, e - 1))],
                                   Drop(s, e))
                 ELSE ParseFail

\* serde_json::from_str::<StreamResponse>: the whole text must be one
\* {"choices":[...]} document.
from_str(data) ==
    IF Len(data) < 2 \/ data[1] # J_OPEN \/ data[Len(data)] # J_CLOSE
    THEN ParseFail
    ELSE IF Len(data) = 2 THEN [ok |-> TRUE, choices |-> <<>>]
         ELSE ParseChoices(SubSeq(data, 2, Len(data) - 1))

HasContent(choice) == choice.content # NoneOpt

\* Faulty variant: the first choice that has content is taken
DeltaOfLine_AnyChoice(line) ==
    IF ~starts_with(line, DATA_PREFIX) THEN NoneOpt
    ELSE LET data == Drop(line, 6)
         IN IF data = DONE_SENTINEL THEN NoneOpt
            ELSE LET stream_response == from_str(data)
                     with == SelectSeq(stream_response.choices, HasContent)
                 IN IF stream_response.ok /\ with # <<>>
                    THEN with[1].content
                    ELSE NoneOpt

\* The body of the loop over the lines of a chunk: the delta the line makes
\* the loop append and emit, if any.
DeltaOfLine(line) ==
    IF ~starts_with(line, DATA_PREFIX) THEN NoneOpt
    ELSE LET data == Drop(line, 6)
         IN IF data = DONE_SENTINEL THEN NoneOpt
            ELSE LET stream_response == from_str(data)
                 IN IF stream_response.ok /\ stream_response.choices # <<>>
                    THEN stream_response.choices[1].content
                    ELSE NoneOpt

\* Faulty variant: the sentinel ends the loop over the lines (break for continue)
RECURSIVE DeltasOfLines_StopAtDone(_)
DeltasOfLines_StopAtDone(ls) ==
    IF ls = <<>> \/ Head(ls) = DATA_PREFIX \o DONE_SENTINEL THEN <<>>
    ELSE DeltaOfLine(Head(ls)) \o DeltasOfLines_StopAtDone(Tail(ls))

\* Faulty variant: a payload that does not parse ends the loop over the lines
RECURSIVE DeltasOfLines_StopAtBadLine(_)
DeltasOfLines_StopAtBadLine(ls) ==
    IF ls = <<>> THEN <<>>
    ELSE IF /\ starts_with(Head(ls), DATA_PREFIX)
            /\ Drop(Head(ls), 6) # DONE_SENTINEL
            /\ ~from_str(Drop(Head(ls), 6)).ok
         THEN <<>>
         ELSE DeltaOfLine(Head(ls)) \o DeltasOfLines_StopAtBadLine(Tail(ls))

RECURSIVE DeltasOfLines(_)
DeltasOfLines(ls) ==
    IF ls = <<>> THEN <<>> ELSE DeltaOfLine(Head(ls)) \o DeltasOfLines(Tail(ls))

\* What one byte chunk makes the loop append and emit, in order:
\* DeltasOfLines(lines(from_utf8_lossy(chunk))), with chunk_str and the lines
\* each worked out once, as the loop does (the CHOOSE from a set of one
\* value is that value).
DeltasOfChunk(chunk) ==
    CHOOSE deltas \in
        {DeltasOfLines(ls) : ls \in {lines(chunk_str) :
                                        chunk_str \in {from_utf8_lossy(chunk)}}} : TRUE

\* ------------------------------------------------- outline text helpers

DigitValue(d) ==
    CASE d = "0" -> 0 [] d = "1" -> 1 [] d = "2" -> 2 [] d = "3" -> 3
      [] d = "4" -> 4 [] d = "5" -> 5 [] d = "6" -> 6 [] d = "7" -> 7
      [] d = "8" -> 8 [] d = "9" -> 9

\* u32::MAX, as its decimal digits
U32_MAX_DIGITS == <<"4", "2", "9", "4", "9", "6", "7", "2", "9", "5">>

RECURSIVE StripZeros(_)
StripZeros(ds) ==
    IF Len(ds) > 1 /\ Head(ds) = "0" THEN StripZeros(Tail(ds)) ELSE ds

\* a <= b for two digit strings of the same length
RECURSIVE DigitsLeq(_, _)
DigitsLeq(a, b) ==
    IF a = <<>> THEN TRUE
    ELSE IF DigitValue(Head(a)) < DigitValue(Head(b)) THEN TRUE
         ELSE IF DigitValue(Head(a)) > DigitValue(Head(b)) THEN FALSE
              ELSE DigitsLeq(Tail(a), Tail(b))

RECURSIVE DigitsValue(_, _)
DigitsValue(ds, acc) ==
    IF ds = <<>> THEN acc ELSE DigitsValue(Tail(ds), 10 * acc + DigitValue(Head(ds)))

\* str::parse::<u32> of a non-empty run of ASCII digits: Some(value), or
\* None when the value does not fit in 32 bits.
parse_u32(ds) ==
    LET z == StripZeros(ds)
    IN IF Len(z) < 10 \/ (Len(z) = 10 /\ DigitsLeq(z, U32_MAX_DIGITS))
       THEN Some(DigitsValue(z, 0))
       ELSE NoneOpt

\* Length of the run of ASCII digits of s that starts at position i.
RECURSIVE DigitRun(_, _)
DigitRun(s, i) ==
    IF i <= Len(s) /\ s[i] \in Digits THEN 1 + DigitRun(s, i + 1) ELSE 0

\* Faulty variant: the last number that parses is kept, not the largest
RECURSIVE ScanChapters_Last(_, _, _)
ScanChapters_Last(s, i, max_chapter) ==
    IF i > Len(s) THEN max_chapter
    ELSE IF i + 2 <= Len(s) /\ SubSeq(s, i, i + 2) = DI
         THEN LET n == DigitRun(s, i + 3)
                  e == i + 3 + n
              IN IF n > 0 /\ e + 2 <= Len(s) /\ SubSeq(s, e, e + 2) = ZHANG
                 THEN LET num == parse_u32(SubSeq(s, i + 3, e - 1))
                      IN ScanChapters_Last(s, e + 3,
                            IF num # NoneOpt THEN num[1] ELSE max_chapter)
                 ELSE ScanChapters_Last(s, i + 1, max_chapter)
         ELSE ScanChapters_Last(s, i + 1, max_chapter)

\* The loop over re.captures_iter(content) for the pattern DI (\d+) ZHANG:
\* the leftmost non-overlapping matches from position i on, keeping the
\* largest number that parses.
RECURSIVE ScanChapters(_, _, _)
ScanChapters(s, i, max_chapter) ==
    IF i > Len(s) THEN max_chapter
    ELSE IF i + 2 <= Len(s) /\ SubSeq(s, i, i + 2) = DI
         THEN LET n == DigitRun(s, i + 3)
                  e == i + 3 + n
              IN IF n > 0 /\ e + 2 <= Len(s) /\ SubSeq(s, e, e + 2) = ZHANG
                 THEN LET num == parse_u32(SubSeq(s, i + 3, e - 1))
                      IN ScanChapters(s, e + 3,
                            IF num # NoneOpt /\ num[1] > max_chapter
                            THEN num[1] ELSE max_chapter)
                 ELSE ScanChapters(s, i + 1, max_chapter)
         ELSE ScanChapters(s, i + 1, max_chapter)

find_last_chapter_number(content) == ScanChapters(content, 1, 0)

\* str::is_char_boundary for a byte offset (0-based, as in the source)
is_char_boundary(s, idx) ==
    idx = 0 \/ idx = Len(s) \/ (idx < Len(s) /\ s[idx + 1] \notin ContBytes)

\* Faulty variant: the start moves forward to the next boundary
RECURSIVE BoundaryAtOrAfter(_, _)
BoundaryAtOrAfter(s, start) ==
    IF start < Len(s) /\ ~is_char_boundary(s, start)
    THEN BoundaryAtOrAfter(s, start + 1)
    ELSE start

\* `while start > 0 && !s.is_char_boundary(start) { start -= 1; }`
RECURSIVE BoundaryAtOrBefore(_, _)
BoundaryAtOrBefore(s, start) ==
    IF start > 0 /\ ~is_char_boundary(s, start)
    THEN BoundaryAtOrBefore(s, start - 1)
    ELSE start

get_last_n_chars(s, n) ==
    IF Len(s) <= n THEN s ELSE Drop(s, BoundaryAtOrBefore(s, Len(s) - n))

\* ------------------------------------------------------------- bounds

\* concurrent callers of the two streaming commands
NumCallers == 2
\* largest target_chapters a caller asks for
MaxTarget == 2

\* ---------------------------------------------------- program constants

max_continuations == 5
OUTLINE_MAX_TOKENS == 8000
CONTINUE_MAX_TOKENS == 6000
CHAPTER_MAX_TOKENS == 4000
TAIL_CONTEXT == 1500

\* ------------------------------------------------------------ upstream

Chapter(d) == DI \o <<d>> \o ZHANG

\* One SSE line carrying one content delta.
Frame(content) == DATA_PREFIX \o <<J_OPEN, J_DELTA>> \o content \o <<J_END, J_CLOSE, LF>>

Bytes(b) == [err |-> FALSE, bytes |-> b]
ReadError == [err |-> TRUE, bytes |-> <<>>]

\* The bodies the upstream answers a 2xx with, as the chunks bytes_stream()
\* yields: two frames in one chunk, one frame per chunk, a frame then a
\* transport failure, a single frame, a frame then the sentinel.
TwoFramesInOneChunk == <<Bytes(Frame(Chapter("1")) \o Frame(<<"x">>))>>
FrameThenReadError == <<Bytes(Frame(<<"x">>)), ReadError>>

Streams ==
    { TwoFramesInOneChunk,
      <<Bytes(Frame(Chapter("2"))), Bytes(Frame(<<"y">>))>>,
      FrameThenReadError,
      <<Bytes(Frame(<<"x">>) \o DATA_PREFIX \o DONE_SENTINEL \o <<LF>>)>> }

ERROR_BODY == <<"b", "a", "d">>

\* The bodies the upstream sends with a status that is not a success: plain
\* text, and a body that would decode to a delta if it were read as SSE.
ERROR_BODIES == {ERROR_BODY, Frame(<<"x">>)}

Procs == 1..NumCallers
Targets == 0..MaxTarget
Free == 0

\* ---------------------------------------------------------------- state

VARIABLES
    CANCEL_FLAG,      \* the AtomicBool
    lockHolder,       \* GENERATION_LOCK: the caller holding the guard, or Free
    waiters,          \* GENERATION_LOCK: the callers queued in lock().await
    pc,               \* where each caller's command is
    kind,             \* "outline" or "chapter"
    target_chapters,  \* input.target_chapters
    queued,           \* history: the call found the lock taken and waited for it
    request,          \* the request body of the current Relay call
    nreq,             \* HTTP requests the current command has sent
    stream,           \* chunks bytes_stream() has yet to yield
    pending,          \* deltas of the current chunk the line loop has yet to reach
    content,          \* full_content of stream_generate / generate_chapter_stream
    full_content,     \* full_content of generate_outline_stream
    i,                \* continuation rounds completed (the loop variable)
    emitted,          \* events emitted to the caller's window
    result,           \* what the command returned
    roundOut,         \* history: what each completed Relay call returned
    relayDeltas,      \* history: deltas emitted by the current Relay call
    cancelMark,       \* history: the first cancel request during the current stream
    cancelAtRoundEnd, \* history: CANCEL_FLAG was set when the last Relay call
                      \* returned Ok, or has been set since
    idleCancel,       \* history: cancel_generation ran with the lock free and no waiter
    sawStale,         \* history: the command started after such a request
    freshCancel,      \* history: cancel_generation ran after the command's reset
    received,         \* history: the deltas decoded from the chunks read so far,
                      \* each with the number of the request that carried it
    relayFailure,     \* history: the Relay call that returned an error other
                      \* than Cancelled
    svc,              \* GenerationService: each caller's operation in flight
    txt,              \* text helpers run alone: the arguments and the values returned
    resume,           \* the loop's decision run alone, on numbers of any size
    db,               \* ChapterService: the tables and each caller's operation
    fed,              \* decoder run: the chunks that have arrived
    wire,             \* decoder run: the whole response body
    chunksLeft,       \* decoder run: the chunks of it yet to arrive
    decoded           \* decoder run: the deltas appended and emitted so far

locals == <<request, nreq, stream, pending, content, full_content, i, emitted,
            roundOut, relayDeltas, cancelMark, cancelAtRoundEnd>>
lockVars == <<lockHolder, waiters>>
callVars == <<kind, target_chapters, queued>>
ghostCancel == <<idleCancel, sawStale, freshCancel>>
ghostRelay == <<received, relayFailure>>
vars == <<CANCEL_FLAG, lockHolder, waiters, pc, kind, target_chapters, queued, request, nreq, stream, pending, content, full_content, i, emitted,
          result, roundOut, relayDeltas, cancelMark, cancelAtRoundEnd,
          idleCancel, sawStale, freshCancel, received, relayFailure,
          wire, chunksLeft, decoded, fed, svc, txt, resume, db>>
decoderVars == <<wire, chunksLeft, decoded, fed>>
serviceVars == <<svc>>
textVars == <<txt>>
resumeVars == <<resume>>
chapterVars == <<db>>
orchestratorVars == <<CANCEL_FLAG, lockHolder, waiters, pc, kind, target_chapters,
                      queued, request, nreq, stream, pending, content,
                      full_content, i, emitted, result, roundOut, relayDeltas,
                      cancelMark, cancelAtRoundEnd, idleCancel, sawStale,
                      freshCancel, received, relayFailure>>

NoResult == [kind |-> "none", text |-> <<>>]
Ok(text) == [kind |-> "ok", text |-> text]
Cancelled == [kind |-> "cancelled", text |-> <<>>]
RequestFailed == [kind |-> "request_failed", text |-> <<>>]

\* Faulty variant: the body is dropped from the error
ApiError_NoBody(body) == [kind |-> "api_error", text |-> <<>>]

\* Err(format!("...: {}", error_text)) of a status that is not a success
ApiError(body) == [kind |-> "api_error", text |-> body]

StreamReadFailed == [kind |-> "read_failed", text |-> <<>>]

NoRequest ==
    [template |-> "none", max_tokens |-> 0, tail |-> <<>>, done |-> 0,
     from |-> 0, to |-> 0, again |-> 0]
NoMark == [set |-> FALSE, k |-> 0, boundary |-> FALSE, more |-> FALSE]
NoFailure ==
    [set |-> FALSE, res |-> NoResult, at |-> 0, body |-> <<>>, readable |-> FALSE]
RelayFailed(res, at, body, readable) ==
    [set |-> TRUE, res |-> res, at |-> at, body |-> body, readable |-> readable]

DeltaEvent(text) == [type |-> "delta", text |-> text, last |-> 0, target |-> 0]
NoteEvent(last, target) == [type |-> "note", text |-> <<>>, last |-> last, target |-> target]

InitOrchestrator ==
    /\ CANCEL_FLAG = FALSE
    /\ lockHolder = Free
    /\ waiters = <<>>
    /\ pc = [p \in Procs |-> "idle"]
    /\ kind = [p \in Procs |-> "chapter"]
    /\ target_chapters = [p \in Procs |-> 0]
    /\ queued = [p \in Procs |-> FALSE]
    /\ request = [p \in Procs |-> NoRequest]
    /\ nreq = [p \in Procs |-> 0]
    /\ stream = [p \in Procs |-> <<>>]
    /\ pending = [p \in Procs |-> <<>>]
    /\ content = [p \in Procs |-> <<>>]
    /\ full_content = [p \in Procs |-> <<>>]
    /\ i = [p \in Procs |-> 0]
    /\ emitted = [p \in Procs |-> <<>>]
    /\ result = [p \in Procs |-> NoResult]
    /\ roundOut = [p \in Procs |-> <<>>]
    /\ relayDeltas = [p \in Procs |-> 0]
    /\ cancelMark = [p \in Procs |-> NoMark]
    /\ cancelAtRoundEnd = [p \in Procs |-> FALSE]
    /\ idleCancel = FALSE
    /\ sawStale = [p \in Procs |-> FALSE]
    /\ freshCancel = [p \in Procs |-> FALSE]
    /\ received = [p \in Procs |-> <<>>]
    /\ relayFailure = [p \in Procs |-> NoFailure]

\* A GenerationService operation: where it is, which method it is, whether
\* self.deepseek is Some, the request built, the requests sent, the response
\* and what the method returned.
NoResponse == [success |-> FALSE, choices |-> <<>>]
IdleService ==
    [pc |-> "idle", op |-> "none", deepseek |-> FALSE, max_tokens |-> 0,
     stream |-> FALSE, sent |-> 0, response |-> NoResponse, result |-> NoResult]

InitService == svc = [p \in Procs |-> IdleService]

\* The text helpers before they are called, on the empty string.
NoText ==
    [content |-> <<>>, n |-> 0, found |-> FALSE, max_chapter |-> 0,
     cut |-> FALSE, tail |-> <<>>]

\* chapters of the project
NumChapters == 2
ChapterIds == 1..NumChapters

\* No call of ChapterService in flight.
IdleOp == [at |-> "idle", id |-> 0, project_id |-> NoneOpt, total |-> 0]

\* A project whose chapters are as ChapterService::create inserted them
\* (no text, word_count 0), with current_word_count 0 and nobody calling.
NewProject ==
    [chapters |-> [c \in ChapterIds |->
                     Some([draft_text |-> NoneOpt, final_text |-> NoneOpt,
                           word_count |-> 0])],
     current_word_count |-> 0,
     op |-> [p \in Procs |-> IdleOp],
     calls |-> 0]

\* The loop's decision not taken: no transcript, target 0.
NoResume ==
    [content |-> <<>>, target_chapters |-> <<"0">>, at |-> "head",
     last_chapter_found |-> <<"0">>, from |-> <<>>]

Init ==
    /\ InitOrchestrator
    /\ InitService
    /\ txt = NoText
    /\ resume = NoResume
    /\ db = NewProject
    /\ wire = <<>>
    /\ chunksLeft = <<>>
    /\ decoded = <<>>
    /\ fed = <<>>

\* ------------------------------------------------------------- the lock

\* Faulty variant: a lock that never makes a caller wait
MutexAvailable_Always == TRUE

\* tokio::sync::Mutex::lock: the permit is there to take
MutexAvailable == lockHolder = Free

\* Faulty variant: the guard is released by hand on the success path only
Return_LeakOnError(p, res) ==
    /\ result' = [result EXCEPT ![p] = res]
    /\ pc' = [pc EXCEPT ![p] = "done"]
    /\ lockHolder' = IF res.kind # "ok" THEN lockHolder
                     ELSE IF waiters = <<>> THEN Free ELSE Head(waiters)
    /\ waiters' = IF res.kind # "ok" \/ waiters = <<>> THEN waiters ELSE Tail(waiters)

\* Faulty variant: the permit is put back without waking the first waiter
Return_NoWake(p, res) ==
    /\ result' = [result EXCEPT ![p] = res]
    /\ pc' = [pc EXCEPT ![p] = "done"]
    /\ lockHolder' = Free
    /\ waiters' = waiters

\* Dropping _lock: the permit goes to the first queued caller, if any.
\* A command returns: its result goes to the caller and _lock is dropped,
\* on every path (the guard lives to the end of the function body).
Return(p, res) ==
    /\ result' = [result EXCEPT ![p] = res]
    /\ pc' = [pc EXCEPT ![p] = "done"]
    /\ lockHolder' = IF waiters = <<>> THEN Free ELSE Head(waiters)
    /\ waiters' = IF waiters = <<>> THEN <<>> ELSE Tail(waiters)

\* Faulty variant: a failed Relay call is sent again
OnRelayError_Retry(p, err) ==
    /\ result' = result
    /\ pc' = [pc EXCEPT ![p] = "send"]
    /\ lockHolder' = lockHolder
    /\ waiters' = waiters

\* `stream_generate(...).await?` and the map_err(...)? of the chapter
\* command: an Err of the Relay call is the command's return value.
OnRelayError(p, err) == Return(p, err)

\* ---------------------------------------------------------- the prompts

InitialRequest(k, target) ==
    [template |-> k,
     max_tokens |-> IF k = "outline" THEN OUTLINE_MAX_TOKENS ELSE CHAPTER_MAX_TOKENS,
     tail |-> <<>>, done |-> 0, from |-> 0, to |-> target, again |-> 0]

\* Faulty variant: the resume index is the last chapter found, not the one after it
ContinueRequest_FromLast(full, last_chapter_found, target) ==
    [template |-> "continue",
     max_tokens |-> CONTINUE_MAX_TOKENS,
     tail |-> get_last_n_chars(full, TAIL_CONTEXT),
     done |-> last_chapter_found,
     from |-> last_chapter_found,
     to |-> target,
     again |-> last_chapter_found]

\* Faulty variant: the continuation is sent with the budget of the first call
ContinueRequest_SameBudget(full, last_chapter_found, target) ==
    [template |-> "continue",
     max_tokens |-> OUTLINE_MAX_TOKENS,
     tail |-> get_last_n_chars(full, TAIL_CONTEXT),
     done |-> last_chapter_found,
     from |-> last_chapter_found + 1,
     to |-> target,
     again |-> last_chapter_found + 1]

\* continue_prompt and continue_system: the numbers and the text the two
\* format! calls put into their templates.
ContinueRequest(full, last_chapter_found, target) ==
    [template |-> "continue",
     max_tokens |-> CONTINUE_MAX_TOKENS,
     tail |-> get_last_n_chars(full, TAIL_CONTEXT),
     done |-> last_chapter_found,
     from |-> last_chapter_found + 1,
     to |-> target,
     again |-> last_chapter_found + 1]

\* ------------------------------------------------------------- actions

\* The deltas of the chunks the stream yields before it fails or ends.
RECURSIVE DeltasOfStream(_)
DeltasOfStream(cs) ==
    IF cs = <<>> \/ Head(cs).err THEN <<>>
    ELSE DeltasOfChunk(Head(cs).bytes) \o DeltasOfStream(Tail(cs))

RemainingDeltas(p) == pending[p] \o DeltasOfStream(stream[p])

\* Faulty variant: the flag is cleared on entry, before the lock is taken
Call_ResetOnEntry(p) ==
    /\ pc[p] = "idle"
    /\ pc' = [pc EXCEPT ![p] = "lock"]
    /\ IF MutexAvailable
       THEN lockHolder' = p /\ waiters' = waiters
       ELSE lockHolder' = lockHolder /\ waiters' = Append(waiters, p)
    /\ queued' = [queued EXCEPT ![p] = ~MutexAvailable]
    /\ CANCEL_FLAG' = FALSE
    /\ UNCHANGED <<kind, target_chapters, result, locals, ghostCancel, ghostRelay>>

\* A command is invoked and runs to GENERATION_LOCK.lock().await. Nothing
\* reads its arguments before the guard is held.
Call(p) ==
    /\ pc[p] = "idle"
    /\ pc' = [pc EXCEPT ![p] = "lock"]
    /\ IF MutexAvailable
       THEN lockHolder' = p /\ waiters' = waiters
       ELSE lockHolder' = lockHolder /\ waiters' = Append(waiters, p)
    /\ queued' = [queued EXCEPT ![p] = ~MutexAvailable]
    /\ UNCHANGED <<CANCEL_FLAG, kind, target_chapters, result, locals,
                   ghostCancel, ghostRelay>>

\* The arguments of the command (which of the two commands it is, and the
\* outline's target_chapters) are first read when the prompts of the first
\* request are built.
BuildFirstRequest(p) ==
    \E k \in {"outline", "chapter"} :
       \E t \in Targets :
          /\ (k = "chapter") => (t = 0)
          /\ kind' = [kind EXCEPT ![p] = k]
          /\ target_chapters' = [target_chapters EXCEPT ![p] = t]
          /\ request' = [request EXCEPT ![p] = InitialRequest(k, t)]

\* Faulty variant: the flag is left as the last command found it
ResetFlag_NoStore(p) ==
    /\ pc[p] = "lock"
    /\ lockHolder = p
    /\ CANCEL_FLAG' = CANCEL_FLAG
    /\ BuildFirstRequest(p)
    /\ pc' = [pc EXCEPT ![p] = "send"]
    /\ sawStale' = [sawStale EXCEPT ![p] = idleCancel]
    /\ idleCancel' = FALSE
    /\ freshCancel' = [freshCancel EXCEPT ![p] = FALSE]
    /\ UNCHANGED <<lockVars, queued, nreq, stream, pending, content,
                   full_content, i, emitted, result, roundOut, relayDeltas,
                   cancelMark, cancelAtRoundEnd, ghostRelay>>

\* The guard is held: CANCEL_FLAG.store(false), then the client and the
\* prompts of the first request are built.
ResetFlag(p) ==
    /\ pc[p] = "lock"
    /\ lockHolder = p
    /\ CANCEL_FLAG' = FALSE
    /\ BuildFirstRequest(p)
    /\ pc' = [pc EXCEPT ![p] = "send"]
    /\ sawStale' = [sawStale EXCEPT ![p] = idleCancel]
    /\ idleCancel' = FALSE
    /\ freshCancel' = [freshCancel EXCEPT ![p] = FALSE]
    /\ UNCHANGED <<lockVars, queued, nreq, stream, pending, content,
                   full_content, i, emitted, result, roundOut, relayDeltas,
                   cancelMark, cancelAtRoundEnd, ghostRelay>>

\* Faulty variant: every Relay call clears the flag before its request
Send_ResetsFlag(p) ==
    /\ pc[p] = "send"
    /\ nreq' = [nreq EXCEPT ![p] = @ + 1]
    /\ relayDeltas' = [relayDeltas EXCEPT ![p] = 0]
    /\ cancelMark' = [cancelMark EXCEPT ![p] = NoMark]
    /\ \/ \* send() fails
          /\ OnRelayError(p, RequestFailed)
          /\ relayFailure' = [relayFailure EXCEPT ![p] =
                 RelayFailed(RequestFailed, nreq[p] + 1, <<>>, FALSE)]
          /\ UNCHANGED <<stream, pending, content>>
       \/ \* a status that is not a success: response.text() is the body,
          \* or the empty default when the body cannot be read
          \E body \in ERROR_BODIES, readable \in BOOLEAN :
             LET error_text == IF readable THEN body ELSE <<>>
             IN /\ OnRelayError(p, ApiError(error_text))
                /\ relayFailure' = [relayFailure EXCEPT ![p] =
                       RelayFailed(ApiError(error_text), nreq[p] + 1, body, readable)]
                /\ UNCHANGED <<stream, pending, content>>
       \/ \* a success: the body is read as a stream
          /\ \E cs \in Streams : stream' = [stream EXCEPT ![p] = cs]
          /\ pending' = [pending EXCEPT ![p] = <<>>]
          /\ content' = [content EXCEPT ![p] = <<>>]
          /\ pc' = [pc EXCEPT ![p] = "next"]
          /\ UNCHANGED <<lockVars, result, relayFailure>>
    /\ CANCEL_FLAG' = FALSE
    /\ UNCHANGED <<callVars, request, full_content, i, emitted,
                   roundOut, cancelAtRoundEnd, ghostCancel, received>>

\* The request is sent and the response head arrives.
Send(p) ==
    /\ pc[p] = "send"
    /\ nreq' = [nreq EXCEPT ![p] = @ + 1]
    /\ relayDeltas' = [relayDeltas EXCEPT ![p] = 0]
    /\ cancelMark' = [cancelMark EXCEPT ![p] = NoMark]
    /\ \/ \* send() fails
          /\ OnRelayError(p, RequestFailed)
          /\ relayFailure' = [relayFailure EXCEPT ![p] =
                 RelayFailed(RequestFailed, nreq[p] + 1, <<>>, FALSE)]
          /\ UNCHANGED <<stream, pending, content>>
       \/ \* a status that is not a success: response.text() is the body,
          \* or the empty default when the body cannot be read
          \E body \in ERROR_BODIES, readable \in BOOLEAN :
             LET error_text == IF readable THEN body ELSE <<>>
             IN /\ OnRelayError(p, ApiError(error_text))
                /\ relayFailure' = [relayFailure EXCEPT ![p] =
                       RelayFailed(ApiError(error_text), nreq[p] + 1, body, readable)]
                /\ UNCHANGED <<stream, pending, content>>
       \/ \* a success: the body is read as a stream
          /\ \E cs \in Streams : stream' = [stream EXCEPT ![p] = cs]
          /\ pending' = [pending EXCEPT ![p] = <<>>]
          /\ content' = [content EXCEPT ![p] = <<>>]
          /\ pc' = [pc EXCEPT ![p] = "next"]
          /\ UNCHANGED <<lockVars, result, relayFailure>>
    /\ UNCHANGED <<CANCEL_FLAG, callVars, request, full_content, i, emitted,
                   roundOut, cancelAtRoundEnd, ghostCancel, received>>

\* Faulty variant: the read loop never looks at the flag
CancelSeenInStream_Never == FALSE

\* `if CANCEL_FLAG.load(Ordering::SeqCst)` at the top of the read loop
CancelSeenInStream == CANCEL_FLAG

\* stream.next() yields a chunk: the flag is loaded, the chunk unwrapped and
\* decoded.
ReadChunk(p) ==
    /\ pc[p] = "next"
    /\ stream[p] # <<>>
    /\ IF CancelSeenInStream
       THEN /\ Return(p, Cancelled)
            /\ UNCHANGED <<stream, pending, ghostRelay>>
       ELSE IF Head(stream[p]).err
            THEN /\ OnRelayError(p, StreamReadFailed)
                 /\ relayFailure' = [relayFailure EXCEPT ![p] =
                        RelayFailed(StreamReadFailed, nreq[p], <<>>, FALSE)]
                 /\ UNCHANGED <<stream, pending, received>>
            ELSE LET ds == DeltasOfChunk(Head(stream[p]).bytes)
                 IN /\ stream' = [stream EXCEPT ![p] = Tail(@)]
                    /\ pending' = [pending EXCEPT ![p] = ds]
                    /\ received' = [received EXCEPT ![p] =
                           @ \o [n \in 1..Len(ds) |-> [round |-> nreq[p], text |-> ds[n]]]]
                    /\ pc' = [pc EXCEPT ![p] = IF ds = <<>> THEN "next" ELSE "lines"]
                    /\ UNCHANGED <<lockVars, result, relayFailure>>
    /\ UNCHANGED <<CANCEL_FLAG, callVars, request, nreq, content, full_content,
                   i, emitted, roundOut, relayDeltas, cancelMark,
                   cancelAtRoundEnd, ghostCancel>>

\* Faulty variant: the deltas of a chunk are taken from the back
EmitDelta_LastFirst(p) ==
    /\ pc[p] = "lines"
    /\ content' = [content EXCEPT ![p] = @ \o pending[p][Len(pending[p])]]
    /\ emitted' = [emitted EXCEPT ![p] =
                      Append(@, DeltaEvent(pending[p][Len(pending[p])]))]
    /\ pending' = [pending EXCEPT ![p] = Take(@, Len(@) - 1)]
    /\ relayDeltas' = [relayDeltas EXCEPT ![p] = @ + 1]
    /\ pc' = [pc EXCEPT ![p] = IF Len(pending[p]) = 1 THEN "next" ELSE "lines"]
    /\ UNCHANGED <<CANCEL_FLAG, lockVars, callVars, request, nreq, stream,
                   full_content, i, result, roundOut, cancelMark,
                   cancelAtRoundEnd, ghostCancel, ghostRelay>>

\* The line loop reaches the next line that carries a delta: push_str and
\* window.emit.
EmitDelta(p) ==
    /\ pc[p] = "lines"
    /\ content' = [content EXCEPT ![p] = @ \o Head(pending[p])]
    /\ emitted' = [emitted EXCEPT ![p] = Append(@, DeltaEvent(Head(pending[p])))]
    /\ pending' = [pending EXCEPT ![p] = Tail(@)]
    /\ relayDeltas' = [relayDeltas EXCEPT ![p] = @ + 1]
    /\ pc' = [pc EXCEPT ![p] = IF Len(pending[p]) = 1 THEN "next" ELSE "lines"]
    /\ UNCHANGED <<CANCEL_FLAG, lockVars, callVars, request, nreq, stream,
                   full_content, i, result, roundOut, cancelMark,
                   cancelAtRoundEnd, ghostCancel, ghostRelay>>

\* Faulty variant: the round's output takes the place of the transcript
push_str_Overwrite(full, out) == out

\* full_content.push_str(&continuation)
push_str(full, out) == full \o out

\* stream.next() yields None: the Relay call returns Ok(full_content).
StreamEnd(p) ==
    /\ pc[p] = "next"
    /\ stream[p] = <<>>
    /\ roundOut' = [roundOut EXCEPT ![p] = Append(@, content[p])]
    /\ cancelAtRoundEnd' = [cancelAtRoundEnd EXCEPT ![p] = CANCEL_FLAG]
    /\ IF kind[p] = "chapter"
       THEN /\ Return(p, Ok(content[p]))
            /\ UNCHANGED <<full_content, i>>
       ELSE /\ full_content' = [full_content EXCEPT ![p] =
                    IF nreq[p] = 1 THEN content[p] ELSE push_str(@, content[p])]
            /\ i' = [i EXCEPT ![p] = IF nreq[p] = 1 THEN 0 ELSE @ + 1]
            /\ pc' = [pc EXCEPT ![p] = "loop"]
            /\ UNCHANGED <<lockVars, result>>
    /\ UNCHANGED <<CANCEL_FLAG, callVars, request, nreq, stream, pending,
                   content, emitted, relayDeltas, cancelMark, ghostCancel,
                   ghostRelay>>

\* Faulty variant: the loop has no ceiling
RoundsExhausted_Never(p) == FALSE

\* `for i in 0..max_continuations` has run out
RoundsExhausted(p) == i[p] >= max_continuations

\* Faulty variant: running out of rounds is reported as a failure
ExhaustedResult_Error(p) == [kind |-> "exhausted", text |-> <<>>]

\* `Ok(full_content)` after the loop
ExhaustedResult(p) == Ok(full_content[p])

\* Faulty variant: the loop never looks at the flag
CancelSeenBetweenRounds_Never == FALSE

\* `if CANCEL_FLAG.load(Ordering::SeqCst)` at the top of the loop body
CancelSeenBetweenRounds == CANCEL_FLAG

\* Faulty variant: the target itself does not count as reached
TargetReached_Strict(last_chapter_found, target) == last_chapter_found > target

\* `if last_chapter_found >= target_chapters`
TargetReached(last_chapter_found, target) == last_chapter_found >= target

\* Faulty variant: the transcript is scanned before the flag is loaded and
\* the rounds are counted last
LoopHead_TargetFirst(p) ==
    /\ pc[p] = "loop"
    /\ \E last_chapter_found \in {find_last_chapter_number(full_content[p])} :
          IF TargetReached(last_chapter_found, target_chapters[p])
          THEN /\ Return(p, Ok(full_content[p]))
               /\ UNCHANGED <<request, emitted>>
          ELSE IF CancelSeenBetweenRounds
               THEN /\ Return(p, Cancelled)
                    /\ UNCHANGED <<request, emitted>>
               ELSE IF RoundsExhausted(p)
                    THEN /\ Return(p, ExhaustedResult(p))
                         /\ UNCHANGED <<request, emitted>>
                    ELSE /\ emitted' = [emitted EXCEPT ![p] =
                                Append(@, NoteEvent(last_chapter_found, target_chapters[p]))]
                         /\ request' = [request EXCEPT ![p] =
                                ContinueRequest(full_content[p], last_chapter_found,
                                                target_chapters[p])]
                         /\ pc' = [pc EXCEPT ![p] = "send"]
                         /\ UNCHANGED <<lockVars, result>>
    /\ UNCHANGED <<CANCEL_FLAG, callVars, nreq, stream, pending, content,
                   full_content, i, roundOut, relayDeltas, cancelMark,
                   cancelAtRoundEnd, ghostCancel, ghostRelay>>

\* Faulty variant: the progress note is pushed onto the transcript as well
LoopHead_NoteInTranscript(p) ==
    /\ pc[p] = "loop"
    /\ IF RoundsExhausted(p)
       THEN /\ Return(p, ExhaustedResult(p))
            /\ UNCHANGED <<request, emitted, full_content>>
       ELSE IF CancelSeenBetweenRounds
            THEN /\ Return(p, Cancelled)
                 /\ UNCHANGED <<request, emitted, full_content>>
            ELSE \E last_chapter_found \in {find_last_chapter_number(full_content[p])} :
                    IF TargetReached(last_chapter_found, target_chapters[p])
                    THEN /\ Return(p, Ok(full_content[p]))
                         /\ UNCHANGED <<request, emitted, full_content>>
                    ELSE /\ emitted' = [emitted EXCEPT ![p] =
                                Append(@, NoteEvent(last_chapter_found, target_chapters[p]))]
                         /\ request' = [request EXCEPT ![p] =
                                ContinueRequest(full_content[p], last_chapter_found,
                                                target_chapters[p])]
                         /\ pc' = [pc EXCEPT ![p] = "send"]
                         /\ full_content' = [full_content EXCEPT ![p] = @ \o <<"n">>]
                         /\ UNCHANGED <<lockVars, result>>
    /\ UNCHANGED <<CANCEL_FLAG, callVars, nreq, stream, pending, content,
                   i, roundOut, relayDeltas, cancelMark,
                   cancelAtRoundEnd, ghostCancel, ghostRelay>>

\* The head of `for i in 0..max_continuations` and its body up to the
\* continuation request (last_chapter_found is computed once, as by `let`).
LoopHead(p) ==
    /\ pc[p] = "loop"
    /\ IF RoundsExhausted(p)
       THEN /\ Return(p, ExhaustedResult(p))
            /\ UNCHANGED <<request, emitted>>
       ELSE IF CancelSeenBetweenRounds
            THEN /\ Return(p, Cancelled)
                 /\ UNCHANGED <<request, emitted>>
            ELSE \E last_chapter_found \in {find_last_chapter_number(full_content[p])} :
                    IF TargetReached(last_chapter_found, target_chapters[p])
                    THEN /\ Return(p, Ok(full_content[p]))
                         /\ UNCHANGED <<request, emitted>>
                    ELSE /\ emitted' = [emitted EXCEPT ![p] =
                                Append(@, NoteEvent(last_chapter_found, target_chapters[p]))]
                         /\ request' = [request EXCEPT ![p] =
                                ContinueRequest(full_content[p], last_chapter_found,
                                                target_chapters[p])]
                         /\ pc' = [pc EXCEPT ![p] = "send"]
                         /\ UNCHANGED <<lockVars, result>>
    /\ UNCHANGED <<CANCEL_FLAG, callVars, nreq, stream, pending, content,
                   full_content, i, roundOut, relayDeltas, cancelMark,
                   cancelAtRoundEnd, ghostCancel, ghostRelay>>

\* Faulty variant: the request waits for GENERATION_LOCK before it stores
CancelGeneration_Locking ==
    /\ lockHolder = Free
    /\ CANCEL_FLAG' = TRUE
    /\ idleCancel' = (idleCancel \/ waiters = <<>>)
    /\ UNCHANGED <<lockVars, pc, callVars, request, nreq, stream, pending,
                   content, full_content, i, emitted, result, roundOut,
                   relayDeltas, cancelMark, cancelAtRoundEnd, freshCancel,
                   sawStale, ghostRelay>>

\* cancel_generation: CANCEL_FLAG.store(true), Ok(()); no lock, no await.
CancelGeneration ==
    /\ CANCEL_FLAG' = TRUE
    /\ idleCancel' = (idleCancel \/ (lockHolder = Free /\ waiters = <<>>))
    /\ freshCancel' = [p \in Procs |->
          freshCancel[p] \/ pc[p] \in {"send", "next", "lines", "loop"}]
    /\ cancelMark' = [p \in Procs |->
          IF pc[p] \in {"next", "lines"} /\ ~cancelMark[p].set
          THEN [set |-> TRUE, k |-> relayDeltas[p], boundary |-> pc[p] = "next",
                more |-> RemainingDeltas(p) # <<>>]
          ELSE cancelMark[p]]
    /\ cancelAtRoundEnd' = [p \in Procs |-> cancelAtRoundEnd[p] \/ pc[p] = "loop"]
    /\ UNCHANGED <<lockVars, pc, callVars, request, nreq, stream, pending,
                   content, full_content, i, emitted, result, roundOut,
                   relayDeltas, sawStale, ghostRelay>>

\* The front end takes the returned value; the command's frame is gone.
Deliver(p) ==
    /\ pc[p] = "done"
    /\ pc' = [pc EXCEPT ![p] = "idle"]
    /\ kind' = [kind EXCEPT ![p] = "chapter"]
    /\ target_chapters' = [target_chapters EXCEPT ![p] = 0]
    /\ queued' = [queued EXCEPT ![p] = FALSE]
    /\ result' = [result EXCEPT ![p] = NoResult]
    /\ request' = [request EXCEPT ![p] = NoRequest]
    /\ nreq' = [nreq EXCEPT ![p] = 0]
    /\ stream' = [stream EXCEPT ![p] = <<>>]
    /\ pending' = [pending EXCEPT ![p] = <<>>]
    /\ content' = [content EXCEPT ![p] = <<>>]
    /\ full_content' = [full_content EXCEPT ![p] = <<>>]
    /\ i' = [i EXCEPT ![p] = 0]
    /\ emitted' = [emitted EXCEPT ![p] = <<>>]
    /\ roundOut' = [roundOut EXCEPT ![p] = <<>>]
    /\ relayDeltas' = [relayDeltas EXCEPT ![p] = 0]
    /\ cancelMark' = [cancelMark EXCEPT ![p] = NoMark]
    /\ cancelAtRoundEnd' = [cancelAtRoundEnd EXCEPT ![p] = FALSE]
    /\ sawStale' = [sawStale EXCEPT ![p] = FALSE]
    /\ freshCancel' = [freshCancel EXCEPT ![p] = FALSE]
    /\ received' = [received EXCEPT ![p] = <<>>]
    /\ relayFailure' = [relayFailure EXCEPT ![p] = NoFailure]
    /\ UNCHANGED <<CANCEL_FLAG, lockVars, idleCancel>>

\* A returned value is taken before anything else happens: the hand-over
\* touches nothing the other callers or cancel_generation read, so every
\* interleaving is equivalent to one in which it comes first.
Delivered == \A p \in Procs : pc[p] # "done"

Next ==
    /\ \/ \E p \in Procs : Deliver(p)
       \/ Delivered /\ \E p \in Procs : Call(p)
       \/ Delivered /\ \E p \in Procs : ResetFlag(p)
       \/ Delivered /\ \E p \in Procs : Send(p)
       \/ Delivered /\ \E p \in Procs : ReadChunk(p)
       \/ Delivered /\ \E p \in Procs : EmitDelta(p)
       \/ Delivered /\ \E p \in Procs : StreamEnd(p)
       \/ Delivered /\ \E p \in Procs : LoopHead(p)
       \/ Delivered /\ CancelGeneration
    /\ UNCHANGED <<decoderVars, serviceVars, textVars, resumeVars, chapterVars>>

Spec == Init /\ [][Next]_vars

\* The steps of caller p's command once it has been invoked, the hand-over
\* of its return value included.
Progress(p) ==
    /\ \/ Deliver(p)
       \/ Delivered /\ ResetFlag(p)
       \/ Delivered /\ Send(p)
       \/ Delivered /\ ReadChunk(p)
       \/ Delivered /\ EmitDelta(p)
       \/ Delivered /\ StreamEnd(p)
       \/ Delivered /\ LoopHead(p)
    /\ UNCHANGED <<decoderVars, serviceVars, textVars, resumeVars, chapterVars>>

\* Whether a caller comes to hold the lock does not depend on what the
\* commands before it stream, only on their returning: under fairness the
\* upstream answers a success with one of two bodies (one that ends, never
\* reaching chapter 2, and one that fails to read) and the targets are 0..2,
\* so that commands of one request and of six both run.
FairEnv ==
    \A p \in Procs :
        /\ target_chapters[p] <= 2
        /\ \E cs \in {TwoFramesInOneChunk, FrameThenReadError} :
              \E n \in 0..Len(cs) : stream[p] = Drop(cs, n)

NextFair ==
    /\ \/ \E p \in Procs : Deliver(p)
       \/ Delivered /\ \E p \in Procs : Call(p)
       \/ Delivered /\ \E p \in Procs : ResetFlag(p)
       \/ Delivered /\ \E p \in Procs : Send(p)
       \/ Delivered /\ \E p \in Procs : ReadChunk(p)
       \/ Delivered /\ \E p \in Procs : EmitDelta(p)
       \/ Delivered /\ \E p \in Procs : StreamEnd(p)
       \/ Delivered /\ \E p \in Procs : LoopHead(p)
       \/ Delivered /\ CancelGeneration
    /\ UNCHANGED <<decoderVars, serviceVars, textVars, resumeVars, chapterVars>>
    /\ FairEnv'

\* The runtime polls a task that can run, and the upstream answers every
\* request and ends every stream: a command that can take a step takes it.
\* Nothing makes the front end invoke a command or cancel_generation.
SpecFair == Init /\ [][NextFair]_vars /\ \A p \in Procs : WF_vars(Progress(p))

\* ------------------------------------------------------ the decoder alone

\* lines a response body is made of
MaxLines == 2
\* places the transport cuts a body at
MaxCuts == 1

\* A frame whose choices array holds the given elements.
FrameOf(choices) == DATA_PREFIX \o <<J_OPEN>> \o choices \o <<J_CLOSE, LF>>

WireLines ==
    { Frame(Chapter("1")),
      Frame(<<"x">>),
      DATA_PREFIX \o DONE_SENTINEL \o <<LF>>,
      DATA_PREFIX \o <<"?", LF>>,
      <<":", "h", "b", LF>>,
      FrameOf(<<>>),
      FrameOf(<<J_NODELTA>>),
      FrameOf(<<J_NODELTA, J_COMMA, J_DELTA, "z", J_END>>) }

RECURSIVE Bodies(_)
Bodies(n) ==
    IF n = 0 THEN {<<>>}
    ELSE LET shorter == Bodies(n - 1)
         IN shorter \cup {b \o l : b \in shorter, l \in WireLines}

\* The increasing sequences of at most k cut positions in lo..hi.
RECURSIVE CutSeqs(_, _, _)
CutSeqs(lo, hi, k) ==
    IF k = 0 THEN {<<>>}
    ELSE {<<>>} \cup UNION {{<<c>> \o r : r \in CutSeqs(c + 1, hi, k - 1)} : c \in lo..hi}

\* The body cut after each of the given positions.
RECURSIVE CutAt(_, _, _)
CutAt(body, cuts, from) ==
    IF cuts = <<>> THEN <<Drop(body, from)>>
    ELSE <<SubSeq(body, from + 1, Head(cuts))>> \o CutAt(body, Tail(cuts), Head(cuts))

InitDecoder ==
    /\ InitOrchestrator
    /\ InitService
    /\ txt = NoText
    /\ resume = NoResume
    /\ db = NewProject
    /\ wire \in Bodies(MaxLines) \ {<<>>}
    /\ \E cuts \in CutSeqs(1, Len(wire) - 1, MaxCuts) : chunksLeft = CutAt(wire, cuts, 0)
    /\ decoded = <<>>
    /\ fed = <<>>

\* One turn of `while let Some(chunk_result) = stream.next().await` with the
\* flag clear and the chunk read: every delta of the chunk is appended.
Feed ==
    /\ chunksLeft # <<>>
    /\ decoded' = decoded \o DeltasOfChunk(Head(chunksLeft))
    /\ chunksLeft' = Tail(chunksLeft)
    /\ fed' = Append(fed, Head(chunksLeft))
    /\ UNCHANGED <<wire, orchestratorVars, serviceVars, textVars, resumeVars,
                   chapterVars>>

NextDecoder == Feed

SpecDecoder == InitDecoder /\ [][NextDecoder]_vars

\* ------------------------------------------ the non-streaming service

\* The methods of GenerationService that go through
\* DeepSeekClient::generate_text.
ServiceOps ==
    {"generate_outline", "generate_chapter", "generate_prologue",
     "generate_revision", "generate_tweet"}

\* max_tokens of the GenerationParams each method builds
ServiceMaxTokens(op) ==
    CASE op = "generate_outline" -> 4000
      [] op = "generate_chapter" -> 6000
      [] op = "generate_prologue" -> 2000
      [] op = "generate_revision" -> 6000
      [] op = "generate_tweet" -> 1000

\* message.content of the choices of a ChatCompletionResponse
ChoiceContents == {<<"a">>, <<"b">>}
ChoiceLists ==
    {<<>>} \cup {<<c>> : c \in ChoiceContents}
           \cup {<<c, d>> : c \in ChoiceContents, d \in ChoiceContents}

\* anyhow errors of the service path
NotConfigured == [kind |-> "not_configured", text |-> <<>>]
BodyReadFailed == [kind |-> "body_failed", text |-> <<>>]
NoChoices == [kind |-> "no_choices", text |-> <<>>]

ServiceReturn(p, res) ==
    svc' = [svc EXCEPT ![p].pc = "done", ![p].result = res]

\* A method of GenerationService is called: `self.deepseek.as_ref()
\* .ok_or_else(..)?`, then the prompt and the GenerationParams are built and
\* chat_completion makes the request (stream: Some(false)).
ServiceCall(p) ==
    /\ svc[p].pc = "idle"
    /\ \E op \in ServiceOps, deepseek \in BOOLEAN :
          svc' = [svc EXCEPT ![p] =
                    IF deepseek
                    THEN [IdleService EXCEPT !.pc = "send", !.op = op,
                             !.deepseek = TRUE,
                             !.max_tokens = ServiceMaxTokens(op)]
                    ELSE [IdleService EXCEPT !.pc = "done", !.op = op,
                             !.result = NotConfigured]]

\* Faulty variant: a request that fails is sent once more
ChatSend_Retry(p) ==
    /\ svc[p].pc = "send"
    /\ \/ /\ svc[p].sent = 0
          /\ svc' = [svc EXCEPT ![p].sent = @ + 1]
       \/ svc' = [svc EXCEPT ![p].sent = @ + 1, ![p].pc = "done",
                                ![p].result = RequestFailed]
       \/ \E success \in BOOLEAN :
             svc' = [svc EXCEPT ![p].sent = @ + 1, ![p].pc = "body",
                                ![p].response = [NoResponse EXCEPT !.success = success]]

\* chat_completion: `.send().await?` and the status of the response.
ChatSend(p) ==
    /\ svc[p].pc = "send"
    /\ \/ svc' = [svc EXCEPT ![p].sent = @ + 1, ![p].pc = "done",
                                ![p].result = RequestFailed]
       \/ \E success \in BOOLEAN :
             svc' = [svc EXCEPT ![p].sent = @ + 1, ![p].pc = "body",
                                ![p].response = [NoResponse EXCEPT !.success = success]]

\* chat_completion: the body of the response is read, as the error text of a
\* status that is not a success (`response.text().await?`) or as a
\* ChatCompletionResponse (`response.json().await?`).
ChatBody(p) ==
    /\ svc[p].pc = "body"
    /\ \/ ServiceReturn(p, BodyReadFailed)
       \/ /\ ~svc[p].response.success
          /\ \E body \in ERROR_BODIES : ServiceReturn(p, ApiError(body))
       \/ /\ svc[p].response.success
          /\ \E choices \in ChoiceLists :
                svc' = [svc EXCEPT ![p].pc = "choice", ![p].response.choices = choices]

\* Faulty variant: the last choice is taken for the first
FirstChoice_Last(p) ==
    /\ svc[p].pc = "choice"
    /\ IF svc[p].response.choices = <<>>
       THEN ServiceReturn(p, NoChoices)
       ELSE ServiceReturn(p, Ok(svc[p].response.choices[Len(svc[p].response.choices)]))

\* generate_text: `response.choices.first().ok_or_else(..)?.message.content
\* .clone()`, which the method returns as it is.
FirstChoice(p) ==
    /\ svc[p].pc = "choice"
    /\ IF svc[p].response.choices = <<>>
       THEN ServiceReturn(p, NoChoices)
       ELSE ServiceReturn(p, Ok(svc[p].response.choices[1]))

\* The caller takes the returned value.
ServiceDeliver(p) ==
    /\ svc[p].pc = "done"
    /\ svc' = [svc EXCEPT ![p] = IdleService]

NextService ==
    /\ \/ \E p \in Procs : ServiceCall(p)
       \/ \E p \in Procs : ChatSend(p)
       \/ \E p \in Procs : ChatBody(p)
       \/ \E p \in Procs : FirstChoice(p)
       \/ \E p \in Procs : ServiceDeliver(p)
    /\ UNCHANGED <<orchestratorVars, decoderVars, textVars, resumeVars, chapterVars>>

SpecService == Init /\ [][NextService]_vars

\* ------------------------------------------------ the text helpers alone

\* pieces a transcript is made of
MaxPieces == 3
\* largest n get_last_n_chars is called with
MaxTail == 3

\* U+20B2B in UTF-8, a character of four bytes
FOUR_BYTES == <<"F0", "A0", "AC", "AB">>
\* 4294967296, one more than u32::MAX
TOO_LARGE == <<"4", "2", "9", "4", "9", "6", "7", "2", "9", "6">>

\* Valid UTF-8 a transcript is made of: whole markers (one of them with a
\* number that does not fit in 32 bits), the parts of a marker, other text.
TextPieces ==
    { Chapter("1"), Chapter("2"), DI \o TOO_LARGE \o ZHANG,
      DI, ZHANG, <<"1">>, <<"x">>, FOUR_BYTES }

RECURSIVE Texts(_)
Texts(n) ==
    IF n = 0 THEN {<<>>}
    ELSE LET shorter == Texts(n - 1)
         IN shorter \cup {t \o piece : t \in shorter, piece \in TextPieces}

InitText ==
    /\ InitOrchestrator
    /\ InitService
    /\ wire = <<>>
    /\ chunksLeft = <<>>
    /\ decoded = <<>>
    /\ fed = <<>>
    /\ resume = NoResume
    /\ db = NewProject
    /\ \E text \in Texts(MaxPieces), n \in 0..MaxTail :
          txt = [NoText EXCEPT !.content = text, !.n = n]

\* find_last_chapter_number(&content)
FindLastChapterNumber ==
    /\ ~txt.found
    /\ txt' = [txt EXCEPT !.found = TRUE,
                          !.max_chapter = find_last_chapter_number(txt.content)]
    /\ UNCHANGED <<orchestratorVars, decoderVars, serviceVars, resumeVars, chapterVars>>

\* get_last_n_chars(&content, n)
GetLastNChars ==
    /\ ~txt.cut
    /\ txt' = [txt EXCEPT !.cut = TRUE, !.tail = get_last_n_chars(txt.content, txt.n)]
    /\ UNCHANGED <<orchestratorVars, decoderVars, serviceVars, resumeVars, chapterVars>>

NextText == FindLastChapterNumber \/ GetLastNChars

SpecText == InitText /\ [][NextText]_vars

\* ------------------------------------------- the loop's decision alone
\*
\* Lines 77-118 of generate_outline_stream for one transcript and one
\* target, with every u32 kept as its decimal digits (no leading zero), so
\* that numbers up to u32::MAX and beyond can be told apart.

\* markers a transcript of this run holds at most
MaxMarkers == 2

\* u32::MAX - 1
U32_MAX_LESS_ONE == <<"4", "2", "9", "4", "9", "6", "7", "2", "9", "4">>
\* 2^31
TWO_POW_31 == <<"2", "1", "4", "7", "4", "8", "3", "6", "4", "8">>

\* a < b for two u32 given as digits without leading zeros
U32Less(a, b) ==
    \/ Len(a) < Len(b)
    \/ Len(a) = Len(b) /\ a # b /\ DigitsLeq(a, b)

DigitOf(n) == CHOOSE d \in Digits : DigitValue(d) = n

\* ds + 1 in decimal
RECURSIVE DigitsSucc(_)
DigitsSucc(ds) ==
    IF ds = <<>> THEN <<"1">>
    ELSE LET front == SubSeq(ds, 1, Len(ds) - 1)
             d == DigitValue(ds[Len(ds)])
         IN IF d = 9 THEN DigitsSucc(front) \o <<"0">>
            ELSE front \o <<DigitOf(d + 1)>>

\* str::parse::<u32>, the value kept as digits: Some(digits), or None when
\* the value does not fit in 32 bits.
parse_u32_digits(ds) ==
    LET z == StripZeros(ds)
    IN IF Len(z) < 10 \/ (Len(z) = 10 /\ DigitsLeq(z, U32_MAX_DIGITS))
       THEN Some(z)
       ELSE NoneOpt

\* The loop of find_last_chapter_number over re.captures_iter(content), the
\* numbers kept as digits.
RECURSIVE ScanChaptersDigits(_, _, _)
ScanChaptersDigits(s, k, max_chapter) ==
    IF k > Len(s) THEN max_chapter
    ELSE IF k + 2 <= Len(s) /\ SubSeq(s, k, k + 2) = DI
         THEN LET n == DigitRun(s, k + 3)
                  e == k + 3 + n
              IN IF n > 0 /\ e + 2 <= Len(s) /\ SubSeq(s, e, e + 2) = ZHANG
                 THEN LET num == parse_u32_digits(SubSeq(s, k + 3, e - 1))
                      IN ScanChaptersDigits(s, e + 3,
                            IF num # NoneOpt /\ U32Less(max_chapter, num[1])
                            THEN num[1] ELSE max_chapter)
                 ELSE ScanChaptersDigits(s, k + 1, max_chapter)
         ELSE ScanChaptersDigits(s, k + 1, max_chapter)

\* The numbers of the markers: small ones, one with leading zeros, 2^31,
\* u32::MAX - 1, u32::MAX and u32::MAX + 1.
MarkerNumbers ==
    { <<"1">>, <<"0", "3">>, TWO_POW_31, U32_MAX_LESS_ONE, U32_MAX_DIGITS, TOO_LARGE }

ResumePieces == {DI \o ds \o ZHANG : ds \in MarkerNumbers} \cup {<<"x">>}

RECURSIVE ResumeTexts(_)
ResumeTexts(n) ==
    IF n = 0 THEN {<<>>}
    ELSE LET shorter == ResumeTexts(n - 1)
         IN shorter \cup {t \o piece : t \in shorter, piece \in ResumePieces}

\* target_chapters: u32
ResumeTargets ==
    { <<"0">>, <<"1">>, <<"2">>, <<"4">>, TWO_POW_31, U32_MAX_LESS_ONE, U32_MAX_DIGITS }

InitResume ==
    /\ InitOrchestrator
    /\ InitService
    /\ txt = NoText
    /\ db = NewProject
    /\ wire = <<>>
    /\ chunksLeft = <<>>
    /\ decoded = <<>>
    /\ fed = <<>>
    /\ \E text \in ResumeTexts(MaxMarkers), t \in ResumeTargets :
          resume = [NoResume EXCEPT !.content = text, !.target_chapters = t]

\* Faulty variant: the loop ends only when the target is exceeded
TargetReachedDigits_Exceeded(last_chapter_found, target) ==
    U32Less(target, last_chapter_found)

\* last_chapter_found >= target_chapters
TargetReachedDigits(last_chapter_found, target) ==
    ~U32Less(last_chapter_found, target)

\* last_chapter_found + 1 on u32: the sum, or, past u32::MAX, what the build
\* makes of it: a panic (overflow checks on) or 0 (wrapping).
U32AddOne(x) ==
    IF x = U32_MAX_DIGITS THEN {<<"panic">>, <<"0">>} ELSE {DigitsSucc(x)}

\* The scan of the transcript finds the target reached: break.
ResumeBreak ==
    /\ resume.at = "head"
    /\ \E last_chapter_found \in {ScanChaptersDigits(resume.content, 1, <<"0">>)} :
          /\ TargetReachedDigits(last_chapter_found, resume.target_chapters)
          /\ resume' = [resume EXCEPT !.at = "break",
                                      !.last_chapter_found = last_chapter_found]
    /\ UNCHANGED <<orchestratorVars, decoderVars, serviceVars, textVars, chapterVars>>

\* The target is not reached: the continuation prompts are formatted with
\* last_chapter_found + 1.
ResumeContinue ==
    /\ resume.at = "head"
    /\ \E last_chapter_found \in {ScanChaptersDigits(resume.content, 1, <<"0">>)} :
          /\ ~TargetReachedDigits(last_chapter_found, resume.target_chapters)
          /\ \E from \in U32AddOne(last_chapter_found) :
                resume' = [resume EXCEPT !.at = "continue",
                                         !.last_chapter_found = last_chapter_found,
                                         !.from = from]
    /\ UNCHANGED <<orchestratorVars, decoderVars, serviceVars, textVars, chapterVars>>

NextResume == ResumeBreak \/ ResumeContinue

SpecResume == InitResume /\ [][NextResume]_vars

\* ------------------------------------------------------ ChapterService
\*
\* The chapters of one project and the project's row, with update_text and
\* delete called concurrently on the pool: every statement is one step, and
\* nothing ties the statements of one call together.

\* calls of ChapterService made in one run
MaxCalls == 2

\* texts a chapter is given: one and two non-whitespace characters
ChapterTexts == { <<"a", " ">>, <<"a", " ", "b">> }
OptTexts == {NoneOpt} \cup {Some(t) : t \in ChapterTexts}

\* text.chars().filter(|c| !c.is_whitespace()).count()
CountNonWhitespace(text) == Len(SelectSeq(text, LAMBDA c : c # " "))

\* final_text.as_ref().or(draft_text.as_ref()).map(count).unwrap_or(0)
WordCountOf(draft_text, final_text) ==
    IF final_text # NoneOpt THEN CountNonWhitespace(final_text[1])
    ELSE IF draft_text # NoneOpt THEN CountNonWhitespace(draft_text[1])
         ELSE 0

\* SELECT COALESCE(SUM(word_count), 0) FROM chapters WHERE project_id = ?,
\* over the rows c..NumChapters
RECURSIVE SumWordCount(_, _)
SumWordCount(chapters, c) ==
    IF c > NumChapters THEN 0
    ELSE (IF chapters[c] = NoneOpt THEN 0 ELSE chapters[c][1].word_count)
         + SumWordCount(chapters, c + 1)

InitChapters ==
    /\ InitOrchestrator
    /\ InitService
    /\ txt = NoText
    /\ resume = NoResume
    /\ db = NewProject
    /\ wire = <<>>
    /\ chunksLeft = <<>>
    /\ decoded = <<>>
    /\ fed = <<>>

\* The call returns: its frame is gone.
ChapterReturn(p) == [db.op EXCEPT ![p] = IdleOp]

\* update_text is called and its UPDATE chapters ... WHERE id = ? runs: the
\* row, if there is one, gets the texts and their count.
UpdateChapterRow(p) ==
    /\ db.op[p].at = "idle"
    /\ db.calls < MaxCalls
    /\ \E id \in ChapterIds, draft_text \in OptTexts, final_text \in OptTexts :
          \E word_count \in {WordCountOf(draft_text, final_text)} :
             db' = [db EXCEPT
                      !.calls = @ + 1,
                      !.chapters[id] =
                          IF @ = NoneOpt THEN @
                          ELSE Some([draft_text |-> draft_text,
                                     final_text |-> final_text,
                                     word_count |-> word_count]),
                      !.op[p] = [IdleOp EXCEPT !.at = "select", !.id = id]]
    /\ UNCHANGED <<orchestratorVars, decoderVars, serviceVars, textVars, resumeVars>>

\* update_text: SELECT * FROM chapters WHERE id = ?; without a row the call
\* returns Ok, with one it goes on to update_project_word_count.
SelectChapter(p) ==
    /\ db.op[p].at = "select"
    /\ db' = [db EXCEPT !.op =
                IF db.chapters[db.op[p].id] = NoneOpt
                THEN ChapterReturn(p)
                ELSE [@ EXCEPT ![p].at = "sum", ![p].project_id = Some("project")]]
    /\ UNCHANGED <<orchestratorVars, decoderVars, serviceVars, textVars, resumeVars>>

\* delete is called and its SELECT project_id FROM chapters WHERE id = ?
\* runs.
SelectProjectId(p) ==
    /\ db.op[p].at = "idle"
    /\ db.calls < MaxCalls
    /\ \E id \in ChapterIds :
          db' = [db EXCEPT
                   !.calls = @ + 1,
                   !.op[p] = [IdleOp EXCEPT
                                !.at = "delete", !.id = id,
                                !.project_id = IF db.chapters[id] = NoneOpt
                                               THEN NoneOpt ELSE Some("project")]]
    /\ UNCHANGED <<orchestratorVars, decoderVars, serviceVars, textVars, resumeVars>>

\* delete: DELETE FROM chapters WHERE id = ?; then, if the project_id was
\* found, update_project_word_count, else Ok.
DeleteChapterRow(p) ==
    /\ db.op[p].at = "delete"
    /\ db' = [db EXCEPT
                !.chapters[db.op[p].id] = NoneOpt,
                !.op = IF db.op[p].project_id = NoneOpt
                       THEN ChapterReturn(p)
                       ELSE [@ EXCEPT ![p].at = "sum"]]
    /\ UNCHANGED <<orchestratorVars, decoderVars, serviceVars, textVars, resumeVars>>

\* update_project_word_count: the SELECT of the sum; the caller holds total.
SelectTotal(p) ==
    /\ db.op[p].at = "sum"
    /\ db' = [db EXCEPT !.op[p].at = "write",
                        !.op[p].total = SumWordCount(db.chapters, 1)]
    /\ UNCHANGED <<orchestratorVars, decoderVars, serviceVars, textVars, resumeVars>>

\* update_project_word_count: UPDATE projects SET current_word_count = ?
\* with the total held, then Ok all the way up.
UpdateProjectRow(p) ==
    /\ db.op[p].at = "write"
    /\ db' = [db EXCEPT !.current_word_count = db.op[p].total,
                        !.op = ChapterReturn(p)]
    /\ UNCHANGED <<orchestratorVars, decoderVars, serviceVars, textVars, resumeVars>>

NextChapters ==
    \E p \in Procs :
       \/ UpdateChapterRow(p)
       \/ SelectChapter(p)
       \/ SelectProjectId(p)
       \/ DeleteChapterRow(p)
       \/ SelectTotal(p)
       \/ UpdateProjectRow(p)

SpecChapters == InitChapters /\ [][NextChapters]_vars

\* ================================================================ claims

\* Between taking GENERATION_LOCK and returning.
InFlight(p) ==
    \/ pc[p] \in {"send", "next", "lines", "loop"}
    \/ pc[p] = "lock" /\ lockHolder = p

InRelay(p) == pc[p] \in {"send", "next", "lines"}

\* C1: at most one streaming command, of either kind, is between taking
\* GENERATION_LOCK and returning; a command that sends a request or reads a
\* chunk is the holder of the lock, so a second call reaches its first
\* request only after the first has returned.
C1_SingleFlight ==
    /\ \A p, q \in Procs : (InFlight(p) /\ InFlight(q)) => p = q
    /\ \A p \in Procs : InRelay(p) => lockHolder = p

\* C1 witness: one command reads the stream of a continuation round while
\* another call waits for the lock.
C1_Witness ==
    \E p, q \in Procs :
        /\ p # q
        /\ pc[p] = "lines" /\ nreq[p] >= 2
        /\ pc[q] = "lock" /\ lockHolder # q /\ waiters = <<q>>

\* C2: the lock is never held by a command that has returned or has not
\* started: whenever it is held, its holder is in flight, so after every
\* exit (Ok, Cancelled, a failed request, a failed read) it is free or
\* handed to the next queued call.
C2_SlotReleasedOnExit ==
    /\ lockHolder # Free => InFlight(lockHolder)
    /\ \A p \in Procs : pc[p] \in {"idle", "done"} => lockHolder # p
    /\ waiters # <<>> => lockHolder # Free

\* C2 witness: a command cancelled in a continuation round has returned and
\* the lock is free.
C2_Witness ==
    \E p \in Procs :
        /\ pc[p] = "done" /\ result[p] = Cancelled /\ nreq[p] >= 2
        /\ lockHolder = Free

\* C3 (as claimed): once every chunk of a body has been through the read
\* loop, the deltas appended and emitted are those of the body read as one
\* chunk, however the body was cut.
C3_ChunkSplitInvariance ==
    chunksLeft = <<>> => decoded = DeltasOfChunk(wire)

\* C4 (as claimed): a cancel request that arrives while a Relay call has
\* emitted k deltas and has more to emit stops it there: no further delta is
\* emitted or appended and the call ends with Cancelled.
C4_CancelStopsNextDelta ==
    \A p \in Procs :
        (cancelMark[p].set /\ cancelMark[p].more) =>
            /\ relayDeltas[p] = cancelMark[p].k
            /\ content[p] = Flatten([n \in 1..relayDeltas[p] |->
                   emitted[p][Len(emitted[p]) - relayDeltas[p] + n].text])
            /\ pc[p] # "loop"
            /\ pc[p] = "done" => result[p] = Cancelled

\* C4 (amended): a cancel request that arrives between two chunks, after k
\* deltas and with more deltas in the chunks to come, stops the Relay call
\* there: no further delta is emitted or appended and the call ends with
\* Cancelled.
C4_CancelStopsNextChunk ==
    \A p \in Procs :
        (cancelMark[p].set /\ cancelMark[p].boundary /\ cancelMark[p].more) =>
            /\ relayDeltas[p] = cancelMark[p].k
            /\ content[p] = Flatten([n \in 1..relayDeltas[p] |->
                   emitted[p][Len(emitted[p]) - relayDeltas[p] + n].text])
            /\ pc[p] # "loop"
            /\ pc[p] = "done" => result[p] = Cancelled

\* C4 witness: the request came after the first delta, between two chunks,
\* and the call has returned Cancelled.
C4_Witness ==
    \E p \in Procs :
        /\ cancelMark[p].set /\ cancelMark[p].boundary /\ cancelMark[p].more
        /\ cancelMark[p].k >= 1
        /\ pc[p] = "done" /\ result[p] = Cancelled

\* C5: an outline command whose initial call and five continuation rounds
\* all returned is Ok with the six outputs concatenated in order, also when
\* the transcript is still short of the target.
C5_ExhaustedIsOk ==
    \A p \in Procs :
        (pc[p] = "done" /\ kind[p] = "outline"
            /\ Len(roundOut[p]) = 1 + max_continuations) =>
                result[p] = Ok(Flatten(roundOut[p]))

\* C5 witness: six rounds, no cancel request, the target not reached, Ok.
C5_Witness ==
    \E p \in Procs :
        /\ pc[p] = "done" /\ kind[p] = "outline"
        /\ Len(roundOut[p]) = 1 + max_continuations
        /\ ~freshCancel[p] /\ ~CANCEL_FLAG
        /\ result[p].kind = "ok"
        /\ find_last_chapter_number(result[p].text) < target_chapters[p]

\* C6: a command sends at most 1 + max_continuations requests (a chapter
\* command one), at least one before it returns, and completes at most
\* max_continuations continuation rounds.
C6_BoundedRequests ==
    \A p \in Procs :
        /\ nreq[p] <= 1 + max_continuations
        /\ i[p] <= max_continuations
        /\ kind[p] = "chapter" => nreq[p] <= 1
        /\ pc[p] = "done" => nreq[p] >= 1

\* C6 witness: a command that has sent six requests and returned.
C6_Witness ==
    \E p \in Procs : pc[p] = "done" /\ nreq[p] = 1 + max_continuations

\* C7: the request of a continuation round, built over a transcript whose
\* highest chapter number is m < target, names m as done and asks for
\* chapters m + 1 through target, in the user and in the system prompt.
C7_ContinuationRange ==
    \A p \in Procs :
        (InRelay(p) /\ request[p].template = "continue") =>
            LET m == find_last_chapter_number(full_content[p])
            IN /\ m < target_chapters[p]
               /\ request[p].done = m
               /\ request[p].from = m + 1
               /\ request[p].again = m + 1
               /\ request[p].to = target_chapters[p]

\* C7 witness: a continuation over a transcript that ends at chapter 1, for
\* a target of 2.
C7_Witness ==
    \E p \in Procs :
        /\ pc[p] = "next" /\ request[p].template = "continue"
        /\ find_last_chapter_number(full_content[p]) = 1
        /\ request[p].from = 2 /\ request[p].to = 2

\* A round has returned and the transcript reaches the target.
Satisfied(p) ==
    /\ kind[p] = "outline"
    /\ pc[p] = "loop"
    /\ find_last_chapter_number(full_content[p]) >= target_chapters[p]

\* C8 (as claimed): once a round leaves the transcript at or past the
\* target, no request is sent, no event is emitted and the command returns
\* the transcript.
C8_SatisfiedReturnsTranscript ==
    [][\A p \in Procs :
          Satisfied(p) =>
             /\ nreq'[p] = nreq[p]
             /\ emitted'[p] = emitted[p]
             /\ pc'[p] \in {"loop", "done"}
             /\ pc'[p] = "done" => result'[p] = Ok(full_content[p])]_vars

\* C8 (amended): once a round leaves the transcript at or past the target,
\* no request is sent and no event is emitted; the command returns the
\* transcript, or Cancelled when the flag is set at the check that follows
\* the round (there is one after every round but the fifth continuation).
C8_SatisfiedStops ==
    [][\A p \in Procs :
          Satisfied(p) =>
             /\ nreq'[p] = nreq[p]
             /\ emitted'[p] = emitted[p]
             /\ pc'[p] \in {"loop", "done"}
             /\ pc'[p] = "done" =>
                   \/ result'[p] = Ok(full_content[p])
                   \/ /\ result'[p] = Cancelled
                      /\ CANCEL_FLAG
                      /\ i[p] < max_continuations]_vars

\* C8 witness: a continuation round brought the transcript to the target
\* and the command returned it.
C8_Witness ==
    \E p \in Procs :
        /\ pc[p] = "done" /\ kind[p] = "outline" /\ nreq[p] >= 2
        /\ target_chapters[p] >= 1
        /\ result[p] = Ok(full_content[p])
        /\ find_last_chapter_number(full_content[p]) >= target_chapters[p]

\* C9 (as claimed): when the flag is set after a round has returned, the
\* last one too, and the transcript is short of the target, no request
\* follows and the command returns Cancelled.
C9_CancelAfterEveryRound ==
    \A p \in Procs :
        (kind[p] = "outline" /\ cancelAtRoundEnd[p]
            /\ find_last_chapter_number(full_content[p]) < target_chapters[p]) =>
                /\ pc[p] \in {"loop", "done"}
                /\ pc[p] = "done" => result[p] = Cancelled

\* C9 (amended): when the flag is set after the initial call or one of the
\* first four continuation rounds has returned and the transcript is short
\* of the target, no request follows and the command returns Cancelled;
\* after the fifth continuation round the flag is not read and the command
\* returns the transcript.
C9_CancelBetweenRounds ==
    \A p \in Procs :
        (kind[p] = "outline" /\ cancelAtRoundEnd[p]
            /\ find_last_chapter_number(full_content[p]) < target_chapters[p]) =>
                /\ pc[p] \in {"loop", "done"}
                /\ pc[p] = "done" =>
                      result[p] = IF i[p] < max_continuations
                                  THEN Cancelled ELSE Ok(full_content[p])

\* C9 witness: cancelled after a continuation round that was not the last.
C9_Witness ==
    \E p \in Procs :
        /\ kind[p] = "outline" /\ cancelAtRoundEnd[p]
        /\ find_last_chapter_number(full_content[p]) < target_chapters[p]
        /\ i[p] >= 1 /\ i[p] < max_continuations
        /\ pc[p] = "done" /\ result[p] = Cancelled

\* C10: a command that started after a cancel request made while the lock
\* was free and nobody waited sees the flag set, or returns Cancelled, only
\* if cancel_generation ran again after the command's own reset.
C10_StaleCancelIgnored ==
    \A p \in Procs :
        sawStale[p] =>
            /\ (pc[p] \in {"send", "next", "lines", "loop"} /\ CANCEL_FLAG) => freshCancel[p]
            /\ (pc[p] = "done" /\ result[p] = Cancelled) => freshCancel[p]

\* C10 witness: such a command read its stream to the end and returned Ok.
C10_Witness ==
    \E p \in Procs :
        /\ sawStale[p] /\ ~freshCancel[p]
        /\ pc[p] = "done" /\ result[p].kind = "ok" /\ result[p].text # <<>>

\* C11: CANCEL_FLAG goes from set to clear only in the step in which the
\* holder of the lock, having taken it and sent no request yet, stores
\* false; no step of a queued caller, of a running Relay call or of a
\* returning command clears it.
C11_ResetOnlyUnderSlot ==
    [][(CANCEL_FLAG /\ ~CANCEL_FLAG') =>
          \E p \in Procs :
             /\ lockHolder = p /\ lockHolder' = p
             /\ pc[p] = "lock" /\ pc'[p] = "send"
             /\ nreq[p] = 0 /\ nreq'[p] = 0
             /\ \A q \in Procs \ {p} : pc'[q] = pc[q]]_vars

\* C11 witness: a command was cancelled and has returned Cancelled while
\* another call, queued behind it, now holds the lock and has yet to store
\* false: the flag is still set.
C11_Witness ==
    \E p, q \in Procs :
        /\ p # q
        /\ pc[p] = "done" /\ result[p] = Cancelled /\ cancelMark[p].set
        /\ pc[q] = "lock" /\ lockHolder = q
        /\ CANCEL_FLAG

IsPrefix(a, b) == Len(a) <= Len(b) /\ SubSeq(b, 1, Len(a)) = a

\* C12: in every step of an outline command in flight the transcript before
\* the step is a prefix of the transcript after it; the step that ends a
\* round appends exactly the round's output; and the text of an Ok return
\* is the outputs of the rounds concatenated in round order.
C12_AppendOnly ==
    [][\A p \in Procs :
          (kind[p] = "outline" /\ pc[p] \in {"send", "next", "lines", "loop"}) =>
             /\ IsPrefix(full_content[p], full_content'[p])
             /\ (pc[p] = "next" /\ pc'[p] = "loop") =>
                   full_content'[p] = full_content[p] \o content[p]
             /\ (pc'[p] = "done" /\ result'[p].kind = "ok") =>
                   /\ result'[p].text = full_content[p]
                   /\ result'[p].text = Flatten(roundOut'[p])]_vars

\* C12 witness: an outline command returned Ok after three rounds or more,
\* each with output.
C12_Witness ==
    \E p \in Procs :
        /\ pc[p] = "done" /\ kind[p] = "outline" /\ result[p].kind = "ok"
        /\ Len(roundOut[p]) >= 3
        /\ \A r \in 1..Len(roundOut[p]) : roundOut[p][r] # <<>>
        /\ result[p].text = Flatten(roundOut[p])

\* The delta events of a window's event sequence, each with the round it was
\* emitted in: one progress note precedes every continuation round.
RECURSIVE TagEvents(_, _)
TagEvents(evs, round) ==
    IF evs = <<>> THEN <<>>
    ELSE IF Head(evs).type = "note" THEN TagEvents(Tail(evs), round + 1)
         ELSE <<[round |-> round, text |-> Head(evs).text]>>
                 \o TagEvents(Tail(evs), round)

\* C13: the deltas emitted so far, followed by those of the chunk in hand
\* that the line loop has yet to reach, are the deltas decoded from the
\* chunks read so far, in the order decoded, each once, and each emitted in
\* the round whose request carried it.
C13_DeliveryOrder ==
    \A p \in Procs :
        TagEvents(emitted[p], 1)
            \o [n \in 1..Len(pending[p]) |-> [round |-> nreq[p], text |-> pending[p][n]]]
          = received[p]

\* C13 witness: a command has returned after emitting two deltas of its
\* first round and at least one of its second.
C13_Witness ==
    \E p \in Procs :
        /\ pc[p] = "done" /\ Len(received[p]) >= 3
        /\ received[p][1].round = 1 /\ received[p][2].round = 1
        /\ received[p][1].text # received[p][2].text
        /\ received[p][Len(received[p])].round = 2
        /\ TagEvents(emitted[p], 1) = received[p]

\* C14: once a Relay call has failed with a request, API or read error the
\* command has returned that very error, the failed request is the last one
\* it sent, and it does not hold the lock.
C14_NoRetryOfFailures ==
    \A p \in Procs :
        relayFailure[p].set =>
            /\ pc[p] = "done"
            /\ result[p] = relayFailure[p].res
            /\ nreq[p] = relayFailure[p].at
            /\ lockHolder # p

\* C14 witness: the stream of a continuation round of an outline command
\* failed to read and the command has returned the error.
C14_Witness ==
    \E p \in Procs :
        /\ kind[p] = "outline"
        /\ relayFailure[p].set /\ relayFailure[p].at >= 2
        /\ relayFailure[p].res = StreamReadFailed
        /\ pc[p] = "done" /\ result[p] = StreamReadFailed
        /\ lockHolder # p

\* The Relay call in which the failure happened emitted nothing and left
\* the transcript as the rounds before it made it.
NothingFromFailedCall(p) ==
    /\ relayDeltas[p] = 0
    /\ TagEvents(emitted[p], 1) = received[p]
    /\ kind[p] = "outline" => full_content[p] = Flatten(roundOut[p])
    /\ Len(roundOut[p]) = relayFailure[p].at - 1

\* C15 (as claimed): a status that is not a success makes the Relay call
\* fail with an error that carries the body the upstream sent; the call
\* emits no delta and appends nothing.
C15_ApiErrorCarriesBody ==
    \A p \in Procs :
        (relayFailure[p].set /\ relayFailure[p].res.kind = "api_error") =>
            /\ result[p] = [kind |-> "api_error", text |-> relayFailure[p].body]
            /\ NothingFromFailedCall(p)

\* C15 (amended): a status that is not a success makes the Relay call fail
\* with an error that carries the body the upstream sent, or an empty body
\* when the body cannot be read; the call emits no delta and appends
\* nothing.
C15_ApiErrorCarriesBodyRead ==
    \A p \in Procs :
        (relayFailure[p].set /\ relayFailure[p].res.kind = "api_error") =>
            /\ result[p] = [kind |-> "api_error",
                            text |-> IF relayFailure[p].readable
                                     THEN relayFailure[p].body ELSE <<>>]
            /\ NothingFromFailedCall(p)

\* C15 witness: a continuation request was answered with an error status
\* and a body that reads as an SSE frame; the command returned the body.
C15_Witness ==
    \E p \in Procs :
        /\ relayFailure[p].set /\ relayFailure[p].at >= 2
        /\ relayFailure[p].readable
        /\ relayFailure[p].body = Frame(<<"x">>)
        /\ DeltasOfChunk(relayFailure[p].body) # <<>>
        /\ pc[p] = "done"
        /\ result[p] = [kind |-> "api_error", text |-> Frame(<<"x">>)]

\* The lines the read loop made of the chunks that have arrived.
FedLines(n) == lines(from_utf8_lossy(fed[n]))

IsDoneLine(line) == line = DATA_PREFIX \o DONE_SENTINEL
NotDoneLine(line) == ~IsDoneLine(line)

\* C16: no `data: [DONE]` line yields a delta, and the deltas appended and
\* emitted are those of the other lines of each chunk, the lines after a
\* sentinel included: the sentinel neither ends the loop nor fails the call.
C16_DoneIsSkipped ==
    /\ \A n \in 1..Len(fed) : \A ls \in {FedLines(n)} : \A k \in 1..Len(ls) :
          IsDoneLine(ls[k]) => DeltaOfLine(ls[k]) = NoneOpt
    /\ decoded = Flatten([n \in 1..Len(fed) |->
                    DeltasOfLines(SelectSeq(FedLines(n), NotDoneLine))])

\* C16 witness: a body of the sentinel and then a frame, arrived as one
\* chunk; the frame's delta was appended.
C16_Witness ==
    /\ wire = DATA_PREFIX \o DONE_SENTINEL \o <<LF>> \o Frame(<<"x">>)
    /\ fed = <<wire>>
    /\ chunksLeft = <<>>
    /\ decoded = <<<<"x">>>>

IsUnparseableLine(line) ==
    /\ starts_with(line, DATA_PREFIX)
    /\ Drop(line, 6) # DONE_SENTINEL
    /\ ~from_str(Drop(line, 6)).ok
ParseableLine(line) == ~IsUnparseableLine(line)

\* C17: no `data: ` line whose payload does not parse yields a delta, and
\* the deltas appended and emitted are those of the other lines of each
\* chunk, in order: such a line neither ends the loop nor fails the call.
C17_BadPayloadIsSkipped ==
    /\ \A n \in 1..Len(fed) : \A ls \in {FedLines(n)} : \A k \in 1..Len(ls) :
          IsUnparseableLine(ls[k]) => DeltaOfLine(ls[k]) = NoneOpt
    /\ decoded = Flatten([n \in 1..Len(fed) |->
                    DeltasOfLines(SelectSeq(FedLines(n), ParseableLine))])

\* C17 witness: a body of a line whose payload does not parse and then a
\* frame, arrived as one chunk; the frame's delta was appended.
C17_Witness ==
    /\ wire = DATA_PREFIX \o <<"?", LF>> \o Frame(<<"x">>)
    /\ fed = <<wire>>
    /\ chunksLeft = <<>>
    /\ decoded = <<<<"x">>>>

\* The claim's conditions for a line to yield a delta.
Selected(line) ==
    /\ starts_with(line, DATA_PREFIX)
    /\ Drop(line, 6) # DONE_SENTINEL
    /\ from_str(Drop(line, 6)).ok
    /\ from_str(Drop(line, 6)).choices # <<>>
    /\ from_str(Drop(line, 6)).choices[1].content # NoneOpt

RECURSIVE SelectedContents(_)
SelectedContents(ls) ==
    IF ls = <<>> THEN <<>>
    ELSE IF Selected(Head(ls))
         THEN <<from_str(Drop(Head(ls), 6)).choices[1].content[1]>>
                 \o SelectedContents(Tail(ls))
         ELSE SelectedContents(Tail(ls))

\* C18: the deltas appended and emitted are, line by line, the content of
\* the first choice of every line that starts with `data: `, is not the
\* sentinel, parses, has a choice and has content in its first choice; no
\* other line yields anything.
C18_FrameSelection ==
    decoded = Flatten([n \in 1..Len(fed) |-> SelectedContents(FedLines(n))])

\* C18 witness: a body of a frame whose second choice alone has content and
\* then a frame with content, arrived as one chunk; only the second frame's
\* delta was appended.
C18_Witness ==
    /\ wire = FrameOf(<<J_NODELTA, J_COMMA, J_DELTA, "z", J_END>>) \o Frame(<<"x">>)
    /\ fed = <<wire>>
    /\ chunksLeft = <<>>
    /\ decoded = <<<<"x">>>>

\* C19 (as claimed): the request of every continuation round has a
\* max_tokens greater than that of the initial outline request.
C19_ContinuationBudgetGreater ==
    \A p \in Procs :
        (InRelay(p) /\ request[p].template = "continue") =>
            request[p].max_tokens > InitialRequest("outline", target_chapters[p]).max_tokens

\* C19 (amended): the request of every continuation round has a max_tokens
\* smaller than that of the initial outline request (6000 against 8000).
C19_ContinuationBudgetSmaller ==
    \A p \in Procs :
        (InRelay(p) /\ request[p].template = "continue") =>
            /\ request[p].max_tokens = CONTINUE_MAX_TOKENS
            /\ request[p].max_tokens < InitialRequest("outline", target_chapters[p]).max_tokens

\* C19 witness: the second continuation request is on the wire.
C19_Witness ==
    \E p \in Procs :
        /\ pc[p] = "next" /\ nreq[p] = 3
        /\ request[p].template = "continue"
        /\ request[p].max_tokens = CONTINUE_MAX_TOKENS

\* C20: under fair scheduling every call that has reached
\* GENERATION_LOCK.lock().await, queued or not, comes to hold the lock and
\* sends its first request (lock() has no failure to return), whatever the
\* other callers and cancel_generation do.
C20_EveryCallerStarts ==
    \A p \in Procs : (pc[p] = "lock") ~> (nreq[p] = 1)

\* C20 witness: a call that found the lock taken and waited for it holds the
\* lock and reads the stream of its first request, with the other caller
\* queued behind it again.
C20_Witness ==
    \E p, q \in Procs :
        /\ p # q
        /\ queued[p] /\ lockHolder = p /\ pc[p] = "next" /\ nreq[p] = 1
        /\ pc[q] = "lock" /\ queued[q]

\* What cancel_generation leaves alone: the lock and its queue, where every
\* command is, the transcripts, the stream being read and what was sent,
\* emitted and returned.
CancelFrame ==
    UNCHANGED <<lockHolder, waiters, pc, kind, target_chapters, request, nreq,
                stream, pending, content, full_content, i, emitted, result>>

\* C21: in every state, whoever holds the lock and whoever waits for it,
\* cancel_generation can run to its end in one step; the step leaves
\* CANCEL_FLAG set and changes neither the lock, its queue, a transcript
\* nor the stream being read, and no run of it does otherwise.
C21_CancelAlwaysCompletes ==
    /\ [](ENABLED (CancelGeneration /\ CANCEL_FLAG' /\ CancelFrame))
    /\ [][CancelGeneration => (CANCEL_FLAG' /\ CancelFrame)]_vars

\* C21 witness: cancel_generation ran while a command was reading the
\* stream of a continuation round with another call queued behind it; the
\* flag is set, the holder still reads and the other call still waits.
C21_Witness ==
    \E p, q \in Procs :
        /\ p # q
        /\ lockHolder = p /\ pc[p] = "next" /\ nreq[p] >= 2
        /\ waiters = <<q>> /\ pc[q] = "lock"
        /\ cancelMark[p].set /\ CANCEL_FLAG

\* The text of the delta events of a window's event sequence, cut at the
\* progress notes: one text per stretch between notes.
RECURSIVE RoundTexts(_)
RoundTexts(evs) ==
    IF evs = <<>> THEN <<<<>>>>
    ELSE LET rest == RoundTexts(Tail(evs))
         IN IF Head(evs).type = "note" THEN <<<<>>>> \o rest
            ELSE <<Head(evs).text \o Head(rest)>> \o Tail(rest)

\* The continuation requests an outline command has built.
Continuations(p) ==
    IF request[p].template # "continue" THEN 0
    ELSE IF pc[p] = "send" THEN nreq[p] ELSE nreq[p] - 1

\* C22: the events of an outline command are the deltas of the initial
\* call, then, for every continuation request built, one note followed by
\* the deltas of that round: the text between two notes is the output of
\* one round, the transcript is the outputs of the completed rounds and an
\* Ok return is the text of the delta events alone.
C22_NotesStayOut ==
    \A p \in Procs :
        kind[p] = "outline" =>
            LET texts == RoundTexts(emitted[p])
                rounds == Len(roundOut[p])
            IN /\ Len(texts) = 1 + Continuations(p)
               /\ Len(texts) \in {rounds, rounds + 1}
               /\ \A k \in 1..rounds : texts[k] = roundOut[p][k]
               /\ Len(texts) = rounds + 1 =>
                     texts[rounds + 1] \o Flatten(pending[p])
                        = Flatten([n \in 1..Len(SelectSeq(received[p],
                                      LAMBDA r : r.round = rounds + 1)) |->
                                   SelectSeq(received[p],
                                      LAMBDA r : r.round = rounds + 1)[n].text])
               /\ pc[p] \in {"send", "next", "lines", "loop", "done"} =>
                     full_content[p] = Flatten(roundOut[p])
               /\ (pc[p] = "done" /\ result[p].kind = "ok") =>
                     result[p].text = Flatten(texts)

\* C22 witness: an outline command returned Ok after two continuation
\* rounds, each round with output: two notes were emitted and the text
\* returned is that of the deltas.
C22_Witness ==
    \E p \in Procs :
        /\ pc[p] = "done" /\ kind[p] = "outline" /\ result[p].kind = "ok"
        /\ Len(roundOut[p]) = 3
        /\ \A r \in 1..3 : roundOut[p][r] # <<>>
        /\ Len(SelectSeq(emitted[p], LAMBDA ev : ev.type = "note")) = 2
        /\ emitted[p][Len(emitted[p])].type = "delta"
        /\ result[p].text = Flatten(RoundTexts(emitted[p]))

\* The errors a request of the service path can end in: the request could
\* not be sent, the status was not a success, the body could not be read or
\* decoded, the response had no choice.
RequestErrors ==
    {RequestFailed, BodyReadFailed, NoChoices} \cup {ApiError(b) : b \in ERROR_BODIES}

\* C23: an operation of GenerationService that goes through its
\* DeepSeekClient never sends a second request and never asks for a stream;
\* when it returns it has sent exactly one request and its result is the
\* content of the first choice of the response to it, unchanged, or an error
\* of that request. (Without a client nothing is sent.)
C23_OneRequestPerOperation ==
    \A p \in Procs :
        /\ svc[p].sent <= 1
        /\ ~svc[p].stream
        /\ (svc[p].pc = "done" /\ svc[p].deepseek) =>
              /\ svc[p].sent = 1
              /\ \/ /\ svc[p].response.success
                    /\ svc[p].response.choices # <<>>
                    /\ svc[p].result = Ok(svc[p].response.choices[1])
                 \/ svc[p].result \in RequestErrors
        /\ (svc[p].pc = "done" /\ ~svc[p].deepseek) =>
              svc[p].sent = 0 /\ svc[p].result = NotConfigured

\* C23 witness: generate_chapter returned the first of two different
\* choices after its one request, while another operation failed at its
\* request.
C23_Witness ==
    \E p, q \in Procs :
        /\ svc[p].pc = "done" /\ svc[p].op = "generate_chapter"
        /\ svc[p].sent = 1
        /\ svc[p].response.choices = << <<"a">>, <<"b">> >>
        /\ svc[p].result = Ok(<<"a">>)
        /\ svc[q].pc = "done" /\ svc[q].result = RequestFailed /\ svc[q].sent = 1

\* The occurrences of the marker in a text: <<a, b>> when DI is at a, ZHANG
\* at b and all that is between them is one or more ASCII digits.
MarkersOf(s) ==
    {m \in (1..Len(s)) \X (1..Len(s)) :
        /\ m[1] + 4 <= m[2] /\ m[2] + 2 <= Len(s)
        /\ SubSeq(s, m[1], m[1] + 2) = DI
        /\ SubSeq(s, m[2], m[2] + 2) = ZHANG
        /\ \A k \in (m[1] + 3)..(m[2] - 1) : s[k] \in Digits}

\* The digits of a marker.
NumberOf(s, m) == SubSeq(s, m[1] + 3, m[2] - 1)

\* C24 (as claimed): the value returned is the largest number of a marker of
\* the text, 0 when the text has no marker: every marker's number is at most
\* the value returned (a number of ten digits or more that does not fit in
\* 32 bits is larger than any value returned), and the value is the number
\* of a marker or 0.
C24_LargestMarker ==
    txt.found =>
        /\ \A m \in MarkersOf(txt.content) :
              /\ parse_u32(NumberOf(txt.content, m)) # NoneOpt
              /\ parse_u32(NumberOf(txt.content, m))[1] <= txt.max_chapter
        /\ \/ txt.max_chapter = 0
           \/ \E m \in MarkersOf(txt.content) :
                 parse_u32(NumberOf(txt.content, m)) = Some(txt.max_chapter)

\* C24 (amended): the value returned is the largest number of a marker of
\* the text among the markers whose number fits in 32 bits, 0 when there is
\* none; the markers whose number does not fit are passed over.
C24_LargestMarkerThatFits ==
    txt.found =>
        /\ \A m \in MarkersOf(txt.content) :
              parse_u32(NumberOf(txt.content, m)) # NoneOpt =>
                 parse_u32(NumberOf(txt.content, m))[1] <= txt.max_chapter
        /\ \/ txt.max_chapter = 0
           \/ \E m \in MarkersOf(txt.content) :
                 parse_u32(NumberOf(txt.content, m)) = Some(txt.max_chapter)

\* C24 witness: a text of a marker too large to parse, chapter 2 and
\* chapter 1, in this order; the value returned is 2.
C24_Witness ==
    /\ txt.found
    /\ txt.content = DI \o TOO_LARGE \o ZHANG \o Chapter("2") \o Chapter("1")
    /\ Cardinality(MarkersOf(txt.content)) = 3
    /\ txt.max_chapter = 2

\* What the command does after a round: it returned res, or it goes on to
\* the next continuation request.
ReturnedAfterRound(p, res) == pc'[p] = "done" /\ result'[p] = res
ContinuedAfterRound(p) == pc'[p] = "send" /\ request'[p].template = "continue"

\* C25 (as claimed): after a round the target is checked first, then the
\* flag, then the number of rounds: a transcript that reaches the target is
\* returned also when the flag is set, and a set flag gives Cancelled also
\* after the fifth continuation round.
C25_TargetThenCancelThenCeiling ==
    [][\A p \in Procs :
          (pc[p] = "loop" /\ pc'[p] # "loop") =>
             IF find_last_chapter_number(full_content[p]) >= target_chapters[p]
             THEN ReturnedAfterRound(p, Ok(full_content[p]))
             ELSE IF CANCEL_FLAG
                  THEN ReturnedAfterRound(p, Cancelled)
                  ELSE IF i[p] >= max_continuations
                       THEN ReturnedAfterRound(p, Ok(full_content[p]))
                       ELSE ContinuedAfterRound(p)]_vars

\* C25 (amended): after a round the number of rounds is checked first, then
\* the flag, then the target: after the fifth continuation round the
\* transcript is returned whatever the flag; before that a set flag gives
\* Cancelled also when the transcript reaches the target.
C25_CeilingThenCancelThenTarget ==
    [][\A p \in Procs :
          (pc[p] = "loop" /\ pc'[p] # "loop") =>
             IF i[p] >= max_continuations
             THEN ReturnedAfterRound(p, Ok(full_content[p]))
             ELSE IF CANCEL_FLAG
                  THEN ReturnedAfterRound(p, Cancelled)
                  ELSE IF find_last_chapter_number(full_content[p]) >= target_chapters[p]
                       THEN ReturnedAfterRound(p, Ok(full_content[p]))
                       ELSE ContinuedAfterRound(p)]_vars

\* C25 witness: the first continuation round brought the transcript to the
\* target, the flag was set after the round's last chunk and the command
\* returned Cancelled.
C25_Witness ==
    \E p \in Procs :
        /\ pc[p] = "done" /\ kind[p] = "outline" /\ result[p] = Cancelled
        /\ Len(roundOut[p]) = 2 /\ nreq[p] = 2
        /\ target_chapters[p] >= 1
        /\ find_last_chapter_number(full_content[p]) >= target_chapters[p]
        /\ find_last_chapter_number(roundOut[p][1]) < target_chapters[p]
        /\ ~cancelMark[p].set /\ cancelAtRoundEnd[p]

\* tail is what is left of s after its first start bytes.
IsSuffixFrom(tail, s, start) ==
    start \in 0..Len(s) /\ tail = SubSeq(s, start + 1, Len(s))

\* C26 (as claimed): get_last_n_chars(s, n) is s when s has at most n
\* bytes, and otherwise a suffix of s that starts on a character boundary
\* and has at most n bytes.
C26_TailAtMostN ==
    txt.cut =>
        IF Len(txt.content) <= txt.n THEN txt.tail = txt.content
        ELSE /\ \E start \in 0..Len(txt.content) :
                   /\ IsSuffixFrom(txt.tail, txt.content, start)
                   /\ is_char_boundary(txt.content, start)
             /\ Len(txt.tail) <= txt.n

\* C26 (amended): get_last_n_chars(s, n) is s when s has at most n bytes,
\* and otherwise the shortest suffix of s that starts on a character
\* boundary and has n bytes or more: it has at most n + 3 bytes.
C26_TailAtLeastN ==
    txt.cut =>
        IF Len(txt.content) <= txt.n THEN txt.tail = txt.content
        ELSE \E start \in 0..Len(txt.content) :
                /\ IsSuffixFrom(txt.tail, txt.content, start)
                /\ is_char_boundary(txt.content, start)
                /\ Len(txt.tail) >= txt.n
                /\ Len(txt.tail) <= txt.n + 3
                /\ \A later \in (start + 1)..(Len(txt.content) - txt.n) :
                      ~is_char_boundary(txt.content, later)

\* C26 witness: the last byte of a text that ends in a character of four
\* bytes was asked for; the whole character was returned.
C26_Witness ==
    /\ txt.cut /\ txt.n = 1
    /\ txt.content = Chapter("1") \o FOUR_BYTES
    /\ txt.tail = FOUR_BYTES

\* The command is past its reset and has not returned.
Running(p) == pc[p] \in {"send", "next", "lines", "loop"}

\* C27 (as claimed): a command that returns after cancel_generation ran
\* during it, past its reset, returns Cancelled.
C27_NoCancelLost ==
    \A p \in Procs :
        (freshCancel[p] /\ pc[p] = "done") => result[p] = Cancelled

\* C27 (amended): after cancel_generation ran during a command, past its
\* reset, the flag stays set while the command runs and no further chunk is
\* decoded; the command returns Cancelled where it next loads the flag
\* (with a chunk to read, or at the top of one of the five loop
\* iterations), and otherwise what it returns without a load: the
\* transcript when the stream has ended (of a chapter command, or after the
\* fifth continuation round) or the failure of the request it was about to
\* send.
C27_CancelSeenAtNextLoad ==
    [][\A p \in Procs :
          (freshCancel[p] /\ Running(p)) =>
             /\ CANCEL_FLAG
             /\ pc'[p] # "idle" => received'[p] = received[p]
             /\ (pc[p] = "next" /\ stream[p] # <<>> /\ pc'[p] # "next") =>
                   ReturnedAfterRound(p, Cancelled)
             /\ (pc[p] = "loop" /\ i[p] < max_continuations /\ pc'[p] # "loop") =>
                   ReturnedAfterRound(p, Cancelled)
             /\ pc'[p] = "done" =>
                   \/ result'[p] = Cancelled
                   \/ /\ pc[p] = "next" /\ stream[p] = <<>> /\ kind[p] = "chapter"
                      /\ result'[p] = Ok(content[p])
                   \/ /\ pc[p] = "loop" /\ i[p] >= max_continuations
                      /\ result'[p] = Ok(full_content[p])
                   \/ /\ pc[p] = "send"
                      /\ result'[p].kind \in {"request_failed", "api_error"}]_vars

\* C27 witness: cancel_generation ran while an outline command read the
\* stream of a continuation round, with chunks still to come, and the
\* command returned Cancelled.
C27_Witness ==
    \E p \in Procs :
        /\ freshCancel[p] /\ pc[p] = "done" /\ result[p] = Cancelled
        /\ kind[p] = "outline" /\ nreq[p] >= 2
        /\ cancelMark[p].set /\ stream[p] # <<>>

\* C28: a cancel request made while one call holds the lock and another
\* waits in the queue behind it marks the holder and leaves the waiting
\* call as it was; a call that waited in the queue leaves lock().await only
\* as the holder, with the flag stored false; and while it runs it finds the
\* flag set, or returns Cancelled, only if cancel_generation ran again after
\* its own reset.
C28_CancelHitsHolderOnly ==
    [][\A a, b \in Procs :
          /\ (/\ lockHolder = a /\ Running(a)
              /\ pc[b] = "lock" /\ (\E k \in 1..Len(waiters) : waiters[k] = b)
              /\ pc' = pc /\ CancelGeneration) =>
                /\ CANCEL_FLAG' /\ freshCancel'[a] /\ ~freshCancel'[b]
                /\ result' = result
                /\ lockHolder' = a /\ waiters' = waiters
          /\ (queued[b] /\ pc[b] = "lock" /\ pc'[b] # "lock") =>
                /\ lockHolder = b /\ pc'[b] = "send"
                /\ ~CANCEL_FLAG' /\ ~freshCancel'[b]
          /\ (queued[b] /\ Running(b) /\ CANCEL_FLAG) => freshCancel[b]
          /\ (queued[b] /\ pc'[b] = "done" /\ result'[b] = Cancelled) =>
                freshCancel[b]]_vars

\* C28 witness: cancel_generation ran while one call read the stream of
\* its first request; that call has returned Cancelled, and the call that
\* waited in the queue behind it now holds the lock with the flag still
\* set, about to store false.
C28_Witness ==
    \E a, b \in Procs :
        /\ a # b
        /\ pc[a] = "done" /\ result[a] = Cancelled
        /\ cancelMark[a].set /\ freshCancel[a] /\ nreq[a] = 1
        /\ queued[b] /\ ~queued[a]
        /\ pc[b] = "lock" /\ lockHolder = b /\ CANCEL_FLAG

\* C29: whenever the continuation prompts are formatted, the number found
\* is below the target, hence below u32::MAX, and the number the prompts
\* start from is the number found plus one, a u32: no panic, no wrap to 0;
\* a transcript whose largest marker that parses is u32::MAX ends the loop
\* for every target.
C29_ResumeIndexFits ==
    /\ resume.at = "continue" =>
          /\ U32Less(resume.last_chapter_found, resume.target_chapters)
          /\ U32Less(resume.last_chapter_found, U32_MAX_DIGITS)
          /\ resume.from = DigitsSucc(resume.last_chapter_found)
          /\ ~U32Less(U32_MAX_DIGITS, resume.from)
          /\ ~U32Less(resume.target_chapters, resume.from)
    /\ resume.at = "break" =>
          ~U32Less(resume.last_chapter_found, resume.target_chapters)
    /\ (resume.at # "head" /\ resume.last_chapter_found = U32_MAX_DIGITS) =>
          resume.at = "break"

\* C29 witness: the transcript holds the marker u32::MAX - 1 and a marker
\* too large to parse, the target is u32::MAX: the prompts start from
\* u32::MAX.
C29_Witness ==
    /\ resume.at = "continue"
    /\ resume.content = DI \o U32_MAX_LESS_ONE \o ZHANG \o DI \o TOO_LARGE \o ZHANG
    /\ resume.target_chapters = U32_MAX_DIGITS
    /\ resume.last_chapter_found = U32_MAX_LESS_ONE
    /\ resume.from = U32_MAX_DIGITS

\* C30: when no call of update_text or delete is in flight, the project's
\* current_word_count is the sum of word_count over the chapters that
\* remain, and each chapter's word_count is the count of the non-whitespace
\* characters of its final_text, else of its draft_text, else 0.
C30_WordCountConsistent ==
    (\A p \in Procs : db.op[p].at = "idle") =>
        /\ db.current_word_count = SumWordCount(db.chapters, 1)
        /\ \A c \in ChapterIds :
              db.chapters[c] # NoneOpt =>
                 db.chapters[c][1].word_count
                    = WordCountOf(db.chapters[c][1].draft_text,
                                  db.chapters[c][1].final_text)

====
